---- MODULE Spec2Model ----
(***************************************************************************)
(* Job lifecycle engine of the remote GPU transcoding worker               *)
(* (src/worker/worker.py, src/worker/transcoder.py).                       *)
(*                                                                         *)
(* The worker is one asyncio event loop: a coroutine runs without          *)
(* interruption from one await to the next, so every action below is the   *)
(* code between two suspension points of one coroutine.  FFmpeg            *)
(* subprocesses and HTTP clients are the environment.                      *)
(*                                                                         *)
(* Job ids are the callers' (request.job_id).  The callers modelled here    *)
(* give every new job a fresh id, so a job object is identified with its   *)
(* id; ids are opaque, so they are used in increasing order.  A job has at *)
(* most one worker-spawned subprocess (key "w") and at most one            *)
(* beam-stream handler in flight at a time, whose subprocess has key "b".  *)
(*                                                                         *)
(* Time is counted in seconds and moves from one janitor wake-up to the    *)
(* next; the 5 s grace period of a cancellation is shorter than any such   *)
(* step, so a pending cancellation ends before the clock moves.            *)
(***************************************************************************)
EXTENDS Integers, Sequences, FiniteSets, TLC

\* ------------------------------------------------------------------ bounds
max_concurrent_jobs == 1  \* settings.max_concurrent_jobs as configured here
NumJobs == 2         \* job ids the callers use: 1..NumJobs
MaxRequests == 4     \* HTTP requests the callers send
MaxSilent == 3       \* the same, of callers that fall silent afterwards
Burst == 10          \* jobs submitted beyond the concurrency cap in a burst
MaxTime == 135       \* the clock stops here (seconds)
MaxChunks == 2       \* chunks a direct stream yields
NumSockets == 2      \* WebSocket clients: 1..NumSockets
MaxLines == 2        \* progress lines a subprocess prints
MaxName == 4         \* characters of a requested file name
MaxPath == 5         \* characters of a path given to the path mapper
MaxArgs == 6         \* arguments of a vector given to the rewriters

\* ------------------------------------------------------- program constants
REAPER_PERIOD == 15            \* asyncio.sleep(15)
ORPHAN_TIMEOUT == 90           \* (now - last) > 90
CLEANER_PERIOD == 60           \* asyncio.sleep(60)
FINISHED_GRACE == 60           \* (now - completed_at) > 60
cleanup_temp_after_hours == 24 \* settings.cleanup_temp_after_hours
FIRST_BYTE_TIMEOUT == 120      \* timeout = 120 if not got_first_data
NEXT_BYTE_TIMEOUT == 30        \* ... else 30
ERROR_TAIL == 500              \* stderr.decode()[-500:]

Workers == 1..max_concurrent_jobs
Drivers == {"w", "b"}
Terminal == {"completed", "failed", "cancelled"}
Statuses == {"none", "pending", "queued", "running"} \cup Terminal

VARIABLES
    jobs,          \* JobQueue.jobs: the registered job ids
    status,        \* job.progress.status ("none": no such job object yet)
    queue,         \* JobQueue.queue
    active_jobs,   \* JobQueue.active_jobs
    last_polled,   \* JobQueue.last_polled: job id -> time (partial)
    completed_at,  \* job.completed_at: job id -> time (partial: None if absent)
    proc,          \* subprocesses: proc[j][d] in none / alive / exit0 / exit1
    job_process,   \* job.process: which subprocess the handle names
    worker,        \* worker[w]: the job worker w drives, 0 when it waits on the queue
    beam,          \* beam-stream handler of a job: idle / body / wait
    cancel,        \* transcoder.cancel(job): none, the subprocess ("w"/"b") it
                   \* terminated and waits for, or done
    reaper_pc,     \* orphan reaper: sleep / cancel (inside cancel_job)
    reaper_todo,   \* the part of list(active_jobs) the reaper has not visited
    reaper_cur,    \* the job whose cancel_job the reaper awaits (0: none)
    reaper_wake,   \* when the reaper's sleep ends
    cleaner_wake,  \* when the temp cleaner's sleep ends
    dirs,          \* directories under settings.temp_dir: name -> mtime
    now,           \* time.time()
    terminal_at,   \* history: when the status last became terminal
    budget         \* history: HTTP requests the callers have left

VARIABLES
    api_key,       \* settings.api_key: "none" (not configured) or the secret
    x_api_key,     \* the X-API-Key header of the request handled last
    stream,        \* stream_transcode.generate: none / read / closing / done
    ffmpeg_proc,   \* the subprocess of the direct stream: none / alive / exited
    signals,       \* history: the signals sent to the direct stream's subprocess
    got_first_data,\* generate's got_first_data
    silent,        \* seconds the current stdout.read of generate has waited
    chunks,        \* history: chunks the direct stream has yielded
    websocket_connections,  \* JobQueue.websocket_connections: job id -> list
    tasks,         \* the _async_broadcast tasks under way
    received,      \* history: what each WebSocket client has been sent
    lines,         \* progress lines of a job's subprocess parsed so far
    ws_state,      \* a client's WebSocket: none / open / broken / closed
    stderr,        \* what each subprocess of a job wrote to stderr
    error,         \* job.progress.error
    stdin,         \* the pipe to the stdin of a job's beam subprocess
    files,         \* the regular files of the worker's filesystem
    response,      \* the answer to the segment request handled last
    settings,      \* WorkerSettings: the fields the rewriters read
    mapped,        \* the argument the path mapper handled last, and its result
    job_raw_args,  \* job.raw_args of the job whose command is built
    command,       \* the command built for it: the rewriter's result and cmd
    worker_task,   \* the task of worker w: run / cancelling (cancel() called,
                   \* CancelledError not thrown yet) / unwind (in transcode's
                   \* handler, awaiting process.wait()) / done
    stop_pc,       \* stop_workers: idle / gather (awaits the workers) / returned
    driven_at_stop, \* history: the jobs workers drove when stop_workers began
    err_pipe,      \* the stderr of the subprocess of job j and driver d: todo,
                   \* the chunks it has yet to write before it closes its
                   \* stdout; fill, the chunks written and not read
    progress,      \* the progress record the parser updates
    fed_line,      \* history: the line the parser was given last
    parsed         \* history: the lines it was given so far

\* the job ids the callers draw from
JobIds == DOMAIN status

Sockets == 1..NumSockets

authvars == <<api_key, x_api_key>>
streamvars == <<stream, ffmpeg_proc, signals, got_first_data, silent, chunks>>
wsvars == <<websocket_connections, tasks, received, lines, ws_state>>
errvars == <<stderr, error, stdin>>
segvars == <<files, response>>
pathvars == <<settings, mapped>>
cmdvars == <<job_raw_args, command>>
stopvars == <<worker_task, stop_pc, driven_at_stop>>
pipevars == <<err_pipe>>
progvars == <<progress, fed_line, parsed>>
purevars == <<segvars, pathvars, cmdvars, stopvars, pipevars, progvars>>

vars == <<jobs, status, queue, active_jobs, last_polled, completed_at, proc,
          job_process, worker, beam, cancel, reaper_pc, reaper_todo, reaper_cur,
          reaper_wake, cleaner_wake, dirs, now, terminal_at, budget>>

\* ----------------------------------------------------------------- helpers
\* dict.pop(key, None)
Pop(f, k) == [x \in DOMAIN f \ {k} |-> f[x]]

\* dict[key] = value
Put(f, k, v) == [x \in DOMAIN f \cup {k} |-> IF x = k THEN v ELSE f[x]]

Alive(j, d) == proc[j][d] = "alive"
Exited(j, d) == proc[j][d] \in {"exit0", "exit1"}

\* a cancel() of job j waits for the subprocess it terminated
Cancelling(j) == cancel[j] \in Drivers

\* history: job j, whose status was old, is given status s at time t
Stamp(t_at, j, old, s, t) ==
    IF s \in Terminal
    THEN IF old \in Terminal THEN t_at ELSE Put(t_at, j, t)
    ELSE Pop(t_at, j)

\* max_age = settings.cleanup_temp_after_hours * 3600
max_age == cleanup_temp_after_hours * 3600

\* output_dir.mkdir(parents=True, exist_ok=True)
Mkdir(d, name, t) == IF name \in DOMAIN d THEN d ELSE Put(d, name, t)

\* ------------------------------------------------------------------- Init
\* the state after JobQueue() and start_workers(), with callers that use the
\* job ids 1..n and send r requests
Start(n, r) ==
    /\ jobs = {}
    /\ status = [j \in 1..n |-> "none"]
    /\ queue = <<>>
    /\ active_jobs = {}
    /\ last_polled = <<>>
    /\ completed_at = <<>>
    /\ proc = [j \in 1..n |-> [d \in Drivers |-> "none"]]
    /\ job_process = [j \in 1..n |-> "none"]
    /\ worker = [w \in Workers |-> 0]
    /\ beam = [j \in 1..n |-> "idle"]
    /\ cancel = [j \in 1..n |-> "none"]
    /\ reaper_pc = "sleep"
    /\ reaper_todo = {}
    /\ reaper_cur = 0
    /\ reaper_wake = REAPER_PERIOD
    /\ cleaner_wake = CLEANER_PERIOD
    /\ dirs = [name \in {n} |-> 0 - (max_age + 1)]  \* left by an old crash
    /\ now = 0
    /\ terminal_at = <<>>
    /\ budget = r

\* WorkerSettings as config.py declares it: hw_accel "qsv", no path mapping
\* (an unset string reads as the empty one)
DefaultSettings ==
    [hw_accel |-> "qsv", media_path_from |-> <<>>, media_path_to |-> <<>>,
     path_mappings |-> <<>>]

\* no argument mapped yet
NoMapped == [arg |-> <<>>, out |-> <<>>]

\* the rewriter has not been run
NoCommand ==
    [source |-> "none", beam_stream |-> FALSE, exists |-> FALSE,
     job_id |-> <<>>, filtered |-> <<>>, cmd |-> <<>>]

\* a place in the filesystem that does not exist
Nowhere == << <<"?">> >>

\* no segment request handled yet
NoResponse ==
    [endpoint |-> "none", job |-> <<"j">>, filename |-> <<"s">>, code |-> 0,
     lookups |-> <<>>, file |-> Nowhere]

\* the rest of the state after start-up, with callers that use the job ids
\* 1..n and settings.api_key = key: no direct stream, no WebSocket client
Rest(n, key) ==
    /\ api_key = key
    /\ x_api_key = "none"
    /\ stream = "none"
    /\ ffmpeg_proc = "none"
    /\ signals = <<>>
    /\ got_first_data = FALSE
    /\ silent = 0
    /\ chunks = 0
    /\ websocket_connections = [j \in 1..n |-> <<>>]
    /\ tasks = <<>>
    /\ received = [s \in Sockets |-> <<>>]
    /\ lines = [j \in 1..n |-> 0]
    /\ ws_state = [s \in Sockets |-> "none"]
    /\ stderr = [j \in 1..n |-> [d \in Drivers |-> [len |-> 0, valid |-> TRUE]]]
    /\ error = [j \in 1..n |-> [kind |-> "none", from |-> 0, to |-> 0]]
    /\ stdin = [j \in 1..n |-> "none"]
    /\ files = {}
    /\ response = NoResponse
    /\ settings = DefaultSettings
    /\ mapped = NoMapped
    /\ job_raw_args = <<>>
    /\ command = NoCommand
    /\ worker_task = [w \in Workers |-> "run"]
    /\ stop_pc = "idle"
    /\ driven_at_stop = {}
    /\ err_pipe = [j \in 1..n |-> [d \in Drivers |-> [todo |-> 0, fill |-> 0]]]
    /\ progress = [frame |-> 0, fps |-> 0, bitrate |-> <<>>, total_size |-> 0,
                   out_time_ms |-> 0, speed |-> 0, progress |-> 0,
                   status |-> "running"]
    /\ fed_line = <<>>
    /\ parsed = 0

Init == Start(NumJobs, MaxRequests) /\ Rest(NumJobs, "none")

\* ------------------------------------------------------------- submission
\* the smallest job id no caller has used yet
IsNextId(j) == status[j] = "none" /\ \A k \in JobIds : k < j => status[k] # "none"

\* JobQueue.submit_job, reached from POST /transcode (beam_stream false) and
\* from POST /transcode/raw, after the handler made the output directory
SubmitJob(j) ==
    /\ budget > 0
    /\ budget' = budget - 1
    /\ IsNextId(j)
    /\ dirs' = Mkdir(dirs, j, now)
    /\ jobs' = jobs \cup {j}
    /\ status' = [status EXCEPT ![j] = "queued"]
    /\ queue' = Append(queue, j)
    /\ UNCHANGED <<active_jobs, last_polled, completed_at, proc, job_process,
                   worker, beam, cancel, reaper_pc, reaper_todo, reaper_cur,
                   reaper_wake, cleaner_wake, now, terminal_at>>

\* a registration for beam streaming that also enqueues the job
RegisterBeamJobEnqueued(j) ==
    /\ budget > 0
    /\ budget' = budget - 1
    /\ IsNextId(j)
    /\ dirs' = Mkdir(dirs, j, now)
    /\ jobs' = jobs \cup {j}
    /\ status' = [status EXCEPT ![j] = "pending"]
    /\ queue' = Append(queue, j)
    /\ UNCHANGED <<active_jobs, last_polled, completed_at, proc, job_process,
                   worker, beam, cancel, reaper_pc, reaper_todo, reaper_cur,
                   reaper_wake, cleaner_wake, now, terminal_at>>

\* POST /transcode with beam_stream true: registered, not enqueued
RegisterBeamJob(j) ==
    /\ budget > 0
    /\ budget' = budget - 1
    /\ IsNextId(j)
    /\ dirs' = Mkdir(dirs, j, now)
    /\ jobs' = jobs \cup {j}
    /\ status' = [status EXCEPT ![j] = "pending"]
    /\ UNCHANGED <<queue, active_jobs, last_polled, completed_at, proc,
                   job_process, worker, beam, cancel, reaper_pc, reaper_todo,
                   reaper_cur, reaper_wake, cleaner_wake, now, terminal_at>>

\* ------------------------------------------------------------------ worker
\* a worker that takes a job from the queue while it still drives one
WorkerStartWhileDriving(w) ==
    /\ queue # <<>>
    /\ LET j == Head(queue) IN
        /\ queue' = Tail(queue)
        /\ active_jobs' = active_jobs \cup {j}
        /\ dirs' = Mkdir(dirs, j, now)
        /\ status' = [status EXCEPT ![j] = "running"]
        /\ terminal_at' = Stamp(terminal_at, j, status[j], "running", now)
        /\ proc' = [proc EXCEPT ![j]["w"] = "alive"]
        /\ job_process' = [job_process EXCEPT ![j] = "w"]
        /\ worker' = [worker EXCEPT ![w] = j]
        /\ cancel' = [cancel EXCEPT ![j] = IF @ = "done" THEN "none" ELSE @]
    /\ UNCHANGED <<jobs, last_polled, completed_at, beam, reaper_pc,
                   reaper_todo, reaper_cur, reaper_wake, cleaner_wake, now,
                   budget>>

\* JobQueue._worker: queue.get(), active_jobs.add, then transcoder.transcode
\* up to the first await that suspends: status running, subprocess spawned
WorkerStart(w) ==
    /\ worker[w] = 0
    /\ queue # <<>>
    /\ LET j == Head(queue) IN
        /\ queue' = Tail(queue)
        /\ active_jobs' = active_jobs \cup {j}
        /\ dirs' = Mkdir(dirs, j, now)
        /\ status' = [status EXCEPT ![j] = "running"]
        /\ terminal_at' = Stamp(terminal_at, j, status[j], "running", now)
        /\ proc' = [proc EXCEPT ![j]["w"] = "alive"]
        /\ job_process' = [job_process EXCEPT ![j] = "w"]
        /\ worker' = [worker EXCEPT ![w] = j]
        /\ cancel' = [cancel EXCEPT ![j] = IF @ = "done" THEN "none" ELSE @]
    /\ UNCHANGED <<jobs, last_polled, completed_at, beam, reaper_pc,
                   reaper_todo, reaper_cur, reaper_wake, cleaner_wake, now,
                   budget>>

\* the same, create_subprocess_exec raising: transcode's except Exception
\* marks the job failed, the worker's finally discards it from the active set
WorkerSpawnFail(w) ==
    /\ worker[w] = 0
    /\ queue # <<>>
    /\ LET j == Head(queue) IN
        /\ queue' = Tail(queue)
        /\ active_jobs' = active_jobs \ {j}
        /\ dirs' = Mkdir(dirs, j, now)
        /\ status' = [status EXCEPT ![j] = "failed"]
        /\ terminal_at' = Stamp(terminal_at, j, "running", "failed", now)
    /\ UNCHANGED <<jobs, last_polled, completed_at, proc, job_process, worker,
                   beam, cancel, reaper_pc, reaper_todo, reaper_cur,
                   reaper_wake, cleaner_wake, now, budget>>

\* the status transcode() gives a job whose subprocess ended with process
\* state p (returncode 0: completed, otherwise failed)
ExitStatusRunning(p) == "running"
ExitStatus(p) == IF p = "exit0" THEN "completed" ELSE "failed"

\* transcode() after the progress stream ended: communicate() on job.process,
\* completed_at, status by returncode; then the worker's finally
WorkerFinish(w) ==
    /\ worker[w] # 0
    /\ LET j == worker[w] IN
        /\ Exited(j, "w")
        /\ Exited(j, job_process[j])
        /\ completed_at' = Put(completed_at, j, now)
        /\ status' = [status EXCEPT ![j] = ExitStatus(proc[j][job_process[j]])]
        /\ terminal_at' = Stamp(terminal_at, j, status[j],
                                ExitStatus(proc[j][job_process[j]]), now)
        /\ active_jobs' = active_jobs \ {j}
        /\ worker' = [worker EXCEPT ![w] = 0]
    /\ UNCHANGED <<jobs, queue, last_polled, proc, job_process, beam, cancel,
                   reaper_pc, reaper_todo, reaper_cur, reaper_wake,
                   cleaner_wake, dirs, now, budget>>

\* ------------------------------------------------------------- subprocess
\* _update_progress_from_line on the line "progress=end", read from the
\* stdout of a live subprocess by _parse_progress or read_beam_progress
ProgressEnd(j, d) ==
    /\ Alive(j, d)
    /\ status' = [status EXCEPT ![j] = "completed"]
    /\ terminal_at' = Stamp(terminal_at, j, status[j], "completed", now)
    /\ UNCHANGED <<jobs, queue, active_jobs, last_polled, completed_at, proc,
                   job_process, worker, beam, cancel, reaper_pc, reaper_todo,
                   reaper_cur, reaper_wake, cleaner_wake, dirs, now, budget>>

\* the subprocess exits by itself, with returncode 0 or not
ProcExit(j, d) ==
    /\ Alive(j, d)
    /\ \E p \in {"exit0", "exit1"} : proc' = [proc EXCEPT ![j][d] = p]
    /\ UNCHANGED <<jobs, status, queue, active_jobs, last_polled, completed_at,
                   job_process, worker, beam, cancel, reaper_pc, reaper_todo,
                   reaper_cur, reaper_wake, cleaner_wake, dirs, now,
                   terminal_at, budget>>

\* ------------------------------------------------------------ cancellation
\* FFmpegTranscoder.cancel up to its await: SIGTERM to job.process when the
\* handle names a subprocess that has not exited, otherwise nothing at all
TranscoderCancel(j) ==
    IF job_process[j] # "none" /\ Alive(j, job_process[j]) /\ ~Cancelling(j)
    THEN cancel' = [cancel EXCEPT ![j] = job_process[j]]
    ELSE UNCHANGED cancel

\* cancel_job(j) reaches the await inside transcoder.cancel and suspends
CancelSuspends(j) ==
    /\ j \in jobs
    /\ status[j] = "running"
    /\ job_process[j] # "none"
    /\ Alive(j, job_process[j])

\* JobQueue.cancel_job: running -> transcoder.cancel, queued -> cancelled,
\* anything else (and an unknown id) -> nothing
CancelJobBodyAny(j) ==
    IF j \in jobs
    THEN /\ status' = [status EXCEPT ![j] = "cancelled"]
         /\ terminal_at' = Stamp(terminal_at, j, status[j], "cancelled", now)
         /\ UNCHANGED cancel
    ELSE UNCHANGED <<status, terminal_at, cancel>>
CancelJobBody(j) ==
    IF j \in jobs /\ status[j] = "running"
    THEN /\ TranscoderCancel(j)
         /\ UNCHANGED <<status, terminal_at>>
    ELSE IF j \in jobs /\ status[j] = "queued"
    THEN /\ status' = [status EXCEPT ![j] = "cancelled"]
         /\ terminal_at' = Stamp(terminal_at, j, status[j], "cancelled", now)
         /\ UNCHANGED cancel
    ELSE UNCHANGED <<status, terminal_at, cancel>>

\* DELETE /job/{job_id}
CancelJob(j) ==
    /\ budget > 0
    /\ budget' = budget - 1
    /\ CancelJobBody(j)
    /\ UNCHANGED <<jobs, queue, active_jobs, last_polled, completed_at, proc,
                   job_process, worker, beam, reaper_pc, reaper_todo,
                   reaper_cur, reaper_wake, cleaner_wake, dirs, now>>

\* cancel(): wait_for(process.wait(), 5.0) timed out: SIGKILL, the subprocess
\* is gone
CancelTimeout(j) ==
    /\ Cancelling(j)
    /\ Alive(j, cancel[j])
    /\ proc' = [proc EXCEPT ![j][cancel[j]] = "exit1"]
    /\ UNCHANGED <<jobs, status, queue, active_jobs, last_polled, completed_at,
                   job_process, worker, beam, cancel, reaper_pc, reaper_todo,
                   reaper_cur, reaper_wake, cleaner_wake, dirs, now,
                   terminal_at, budget>>

\* cancel(): process.wait() returned: status cancelled
CancelDone(j) ==
    /\ Cancelling(j)
    /\ Exited(j, cancel[j])
    /\ status' = [status EXCEPT ![j] = "cancelled"]
    /\ terminal_at' = Stamp(terminal_at, j, status[j], "cancelled", now)
    /\ cancel' = [cancel EXCEPT ![j] = "done"]
    /\ UNCHANGED <<jobs, queue, active_jobs, last_polled, completed_at, proc,
                   job_process, worker, beam, reaper_pc, reaper_todo,
                   reaper_cur, reaper_wake, cleaner_wake, dirs, now, budget>>

\* ------------------------------------------------------------- beam stream
\* POST /beam/stream/{job_id} up to the body loop: any registered job is
\* taken; subprocess spawned, job.process, status running, active_jobs.add
BeamStreamStart(j) ==
    /\ budget > 0
    /\ budget' = budget - 1
    /\ j \in jobs
    /\ beam[j] = "idle"
    /\ ~Alive(j, "b")
    /\ dirs' = Mkdir(dirs, j, now)
    /\ proc' = [proc EXCEPT ![j]["b"] = "alive"]
    /\ job_process' = [job_process EXCEPT ![j] = "b"]
    /\ status' = [status EXCEPT ![j] = "running"]
    /\ terminal_at' = Stamp(terminal_at, j, status[j], "running", now)
    /\ active_jobs' = active_jobs \cup {j}
    /\ beam' = [beam EXCEPT ![j] = "body"]
    /\ cancel' = [cancel EXCEPT ![j] = IF @ = "done" THEN "none" ELSE @]
    /\ UNCHANGED <<jobs, queue, last_polled, completed_at, worker, reaper_pc,
                   reaper_todo, reaper_cur, reaper_wake, cleaner_wake, now>>

\* the body loop ends: end of body (stdin closed), the subprocess exited
\* early, or BrokenPipeError / ConnectionResetError (logged only)
BeamBodyEnd(j) ==
    /\ beam[j] = "body"
    /\ beam' = [beam EXCEPT ![j] = "wait"]
    /\ UNCHANGED <<jobs, status, queue, active_jobs, last_polled, completed_at,
                   proc, job_process, worker, cancel, reaper_pc, reaper_todo,
                   reaper_cur, reaper_wake, cleaner_wake, dirs, now,
                   terminal_at, budget>>

\* the body loop raises another exception (the client went away): SIGTERM
\* without waiting, status failed, active_jobs.discard, HTTP 500
BeamBodyError(j) ==
    /\ beam[j] = "body"
    /\ status' = [status EXCEPT ![j] = "failed"]
    /\ terminal_at' = Stamp(terminal_at, j, status[j], "failed", now)
    /\ active_jobs' = active_jobs \ {j}
    /\ beam' = [beam EXCEPT ![j] = "idle"]
    /\ UNCHANGED <<jobs, queue, last_polled, completed_at, proc, job_process,
                   worker, cancel, reaper_pc, reaper_todo, reaper_cur,
                   reaper_wake, cleaner_wake, dirs, now, budget>>

\* progress_task done, stderr read, process.wait() returned: completed_at,
\* active_jobs.discard, status by the returncode of the handler's subprocess
BeamFinish(j) ==
    /\ beam[j] = "wait"
    /\ Exited(j, "b")
    /\ completed_at' = Put(completed_at, j, now)
    /\ active_jobs' = active_jobs \ {j}
    /\ status' = [status EXCEPT ![j] = ExitStatus(proc[j]["b"])]
    /\ terminal_at' = Stamp(terminal_at, j, status[j], ExitStatus(proc[j]["b"]), now)
    /\ beam' = [beam EXCEPT ![j] = "idle"]
    /\ UNCHANGED <<jobs, queue, last_polled, proc, job_process, worker, cancel,
                   reaper_pc, reaper_todo, reaper_cur, reaper_wake,
                   cleaner_wake, dirs, now, budget>>

\* ------------------------------------------------------------- status poll
\* a status poll that records the poll whatever the job's status
GetJobStatusAnyStatus(j) ==
    /\ budget > 0
    /\ budget' = budget - 1
    /\ last_polled' = IF j \in jobs THEN Put(last_polled, j, now) ELSE last_polled
    /\ UNCHANGED <<jobs, status, queue, active_jobs, completed_at, proc,
                   job_process, worker, beam, cancel, reaper_pc, reaper_todo,
                   reaper_cur, reaper_wake, cleaner_wake, dirs, now,
                   terminal_at>>

\* GET /status/{job_id}: 404 for an unknown id; record_poll when the job is
\* running or queued
GetJobStatus(j) ==
    /\ budget > 0
    /\ budget' = budget - 1
    /\ last_polled' = IF j \in jobs /\ status[j] \in {"running", "queued"}
                      THEN Put(last_polled, j, now)
                      ELSE last_polled
    /\ UNCHANGED <<jobs, status, queue, active_jobs, completed_at, proc,
                   job_process, worker, beam, cancel, reaper_pc, reaper_todo,
                   reaper_cur, reaper_wake, cleaner_wake, dirs, now,
                   terminal_at>>

\* ------------------------------------------------------------------- time
\* some coroutine is ready to run, or waits for something that takes no more
\* than the 5 s of a cancellation: the janitors' sleeps do not end before it
Busy ==
    \/ queue # <<>> /\ \E w \in Workers : worker[w] = 0
    \/ \E w \in Workers : /\ worker[w] # 0
                          /\ Exited(worker[w], "w")
                          /\ Exited(worker[w], job_process[worker[w]])
    \/ \E j \in JobIds : beam[j] = "wait" /\ Exited(j, "b")
    \/ \E j \in JobIds : Cancelling(j)
    \/ reaper_pc # "sleep"

\* ----------------------------------------------------------- orphan reaper
\* a reaper that takes a job without a last-polled entry for an orphan
IsOrphanOrUnpolled(j, t) ==
    j \notin DOMAIN last_polled \/ (t - last_polled[j]) > ORPHAN_TIMEOUT

\* the reaper's test of one job at time t: polled once, and not for 90 s
IsOrphan(j, t) == j \in DOMAIN last_polled /\ (t - last_polled[j]) > ORPHAN_TIMEOUT

\* _orphan_reaper's loop over the jobs `todo` of list(active_jobs) it has not
\* visited, `popped` being the job whose cancel_job has just returned (or no
\* job): it runs without suspending through every job that is no orphan or
\* whose cancel_job returns at once (pop from last_polled), and suspends in
\* the first cancel_job that has a subprocess to wait for; t is its `now`
ReaperLoop(todo, popped, t) ==
    LET orphans == {j \in todo : IsOrphan(j, t)}
        waits == {j \in orphans : CancelSuspends(j)}
        queued == {j \in orphans \ waits : j \in jobs /\ status[j] = "queued"}
        pops == (orphans \ waits) \cup popped
    IN /\ status' = [j \in JobIds |-> IF j \in queued THEN "cancelled" ELSE status[j]]
       /\ terminal_at' = [j \in DOMAIN terminal_at \cup queued |->
                            IF j \in queued THEN t ELSE terminal_at[j]]
       /\ last_polled' = [j \in DOMAIN last_polled \ pops |-> last_polled[j]]
       /\ IF waits = {}
          THEN /\ reaper_pc' = "sleep"
               /\ reaper_todo' = {}
               /\ reaper_cur' = 0
               /\ reaper_wake' = t + REAPER_PERIOD
               /\ UNCHANGED cancel
          ELSE \E j \in waits :
               /\ reaper_pc' = "cancel"
               /\ reaper_todo' = waits \ {j}
               /\ reaper_cur' = j
               /\ TranscoderCancel(j)
               /\ UNCHANGED reaper_wake

\* _orphan_reaper: the sleep is over once nothing else is ready to run;
\* now = time.time(); the loop over list(active_jobs)
ReaperWake ==
    /\ reaper_pc = "sleep"
    /\ reaper_wake <= cleaner_wake
    /\ reaper_wake <= MaxTime
    /\ reaper_wake = now \/ ~Busy
    /\ now' = reaper_wake
    /\ ReaperLoop(active_jobs, {}, reaper_wake)
    /\ UNCHANGED <<jobs, queue, active_jobs, completed_at, proc, job_process,
                   worker, beam, cleaner_wake, dirs, budget>>

\* cancel_job returned to the reaper: last_polled.pop, the rest of the loop
ReaperResume ==
    /\ reaper_pc = "cancel"
    /\ ~Cancelling(reaper_cur)
    /\ ReaperLoop(reaper_todo, {reaper_cur}, now)
    /\ UNCHANGED <<jobs, queue, active_jobs, completed_at, proc, job_process,
                   worker, beam, cleaner_wake, dirs, now, budget>>

\* ------------------------------------------------------------ temp cleaner
\* the finished jobs _temp_cleaner removes at time t: terminal status,
\* completed_at set and more than 60 s in the past
Cleanable(j, t) ==
    /\ j \in jobs
    /\ status[j] \in Terminal
    /\ j \in DOMAIN completed_at
    /\ (t - completed_at[j]) > FINISHED_GRACE

\* the directories the sweep removes at time t, the registry being `registry`
Stale(registry, name, t) ==
    /\ name \in DOMAIN dirs
    /\ name \notin registry
    /\ (t - dirs[name]) > max_age

\* _temp_cleaner: the sleep is over; one pass (it has no await inside)
TempCleaner ==
    /\ cleaner_wake <= reaper_wake \/ reaper_pc # "sleep"
    /\ cleaner_wake <= MaxTime
    /\ cleaner_wake = now \/ ~Busy
    /\ now' = cleaner_wake
    /\ LET gone == {j \in JobIds : Cleanable(j, cleaner_wake)}
           registry == jobs \ gone
           swept == {n \in DOMAIN dirs : Stale(registry, n, cleaner_wake)}
       IN /\ jobs' = registry
          /\ last_polled' = [j \in DOMAIN last_polled \ gone |-> last_polled[j]]
          /\ dirs' = [n \in DOMAIN dirs \ (gone \cup swept) |-> dirs[n]]
    /\ cleaner_wake' = cleaner_wake + CLEANER_PERIOD
    /\ UNCHANGED <<status, queue, active_jobs, completed_at, proc, job_process,
                   worker, beam, cancel, reaper_pc, reaper_todo, reaper_cur,
                   reaper_wake, terminal_at, budget>>

\* ----------------------------------------------------------- direct stream
\* a step outside the job queue leaves the job queue's state alone
JobsUnchanged ==
    UNCHANGED <<jobs, status, queue, active_jobs, last_polled, completed_at,
                proc, job_process, worker, beam, cancel, reaper_pc, reaper_todo,
                reaper_cur, reaper_wake, cleaner_wake, now, terminal_at>>

\* generate(): timeout = 120 if not got_first_data else 30
ReadTimeout == IF got_first_data THEN NEXT_BYTE_TIMEOUT ELSE FIRST_BYTE_TIMEOUT

\* POST /transcode/stream up to generate()'s first read: the subprocess is
\* spawned (one direct stream at a time is modelled)
StreamStart ==
    /\ budget > 0
    /\ budget' = budget - 1
    /\ stream = "none"
    /\ stream' = "read"
    /\ ffmpeg_proc' = "alive"
    /\ UNCHANGED <<signals, got_first_data, silent, chunks>>

\* generate(): process.stdout.read returned a chunk in time; it is yielded
StreamChunk ==
    /\ stream = "read"
    /\ ffmpeg_proc = "alive"
    /\ silent < ReadTimeout
    /\ chunks < MaxChunks
    /\ chunks' = chunks + 1
    /\ got_first_data' = TRUE
    /\ silent' = 0
    /\ UNCHANGED <<budget, stream, ffmpeg_proc, signals>>

\* generate(): the read waits another NEXT_BYTE_TIMEOUT seconds without data
StreamQuiet ==
    /\ stream = "read"
    /\ silent < ReadTimeout
    /\ silent' = silent + NEXT_BYTE_TIMEOUT
    /\ UNCHANGED <<budget, stream, ffmpeg_proc, signals, got_first_data, chunks>>

\* a finally that does not kill the subprocess
StreamFinallyNoKill ==
    /\ stream' = "done"
    /\ UNCHANGED signals

\* generate()'s finally: kill() when the subprocess has not exited, then
\* wait_for(process.wait(), 5)
StreamFinally ==
    IF ffmpeg_proc = "alive"
    THEN /\ signals' = Append(signals, "KILL")
         /\ stream' = "closing"
    ELSE /\ stream' = "done"
         /\ UNCHANGED signals

\* generate(): asyncio.TimeoutError from wait_for: break, finally
StreamTimeout ==
    /\ stream = "read"
    /\ silent = ReadTimeout
    /\ StreamFinally
    /\ UNCHANGED <<budget, ffmpeg_proc, got_first_data, silent, chunks>>

\* generate(): the read returned b"" (the subprocess closed its stdout,
\* whether its exit has been seen or not): break, finally
StreamEOF ==
    /\ stream = "read"
    /\ silent < ReadTimeout
    /\ StreamFinally
    /\ UNCHANGED <<budget, ffmpeg_proc, got_first_data, silent, chunks>>

\* generate(): CancelledError or GeneratorExit (the client disconnected, the
\* generator is closed): finally
StreamDisconnect ==
    /\ stream = "read"
    /\ silent < ReadTimeout
    /\ StreamFinally
    /\ UNCHANGED <<budget, ffmpeg_proc, got_first_data, silent, chunks>>

\* the subprocess of the direct stream exits, by itself or killed
StreamProcExit ==
    /\ ffmpeg_proc = "alive"
    /\ ffmpeg_proc' = "exited"
    /\ UNCHANGED <<budget, stream, signals, got_first_data, silent, chunks>>

\* generate()'s finally: process.wait() returned within the 5 s
StreamReaped ==
    /\ stream = "closing"
    /\ ffmpeg_proc = "exited"
    /\ stream' = "done"
    /\ UNCHANGED <<budget, ffmpeg_proc, signals, got_first_data, silent, chunks>>

\* generate()'s finally: the 5 s are over ("did not exit after kill")
StreamKillTimeout ==
    /\ stream = "closing"
    /\ ffmpeg_proc = "alive"
    /\ stream' = "done"
    /\ UNCHANGED <<budget, ffmpeg_proc, signals, got_first_data, silent, chunks>>

\* a step of generate() or of its subprocess leaves everything else alone
StreamFrame ==
    /\ JobsUnchanged
    /\ UNCHANGED <<dirs, authvars, wsvars, errvars, purevars>>

\* ---------------------------------------------------------------- API key
\* the X-API-Key headers the callers send: none, the configured one, another
Keys == {"none", "secret", "wrong"}

\* verify_api_key(k) returns (it raises HTTP 401 otherwise)
VerifyApiKey(k) == ~(api_key # "none" /\ k # api_key)

\* a request answered 401 by verify_api_key, the first statement of its handler
Unauthorized ==
    /\ budget > 0
    /\ budget' = budget - 1
    /\ JobsUnchanged
    /\ UNCHANGED dirs

\* a handler that starts with verify_api_key(k) and goes on as A
Verified(k, A) == IF VerifyApiKey(k) THEN A ELSE Unauthorized

\* PUT /beam/upload/{job_id}: the directory of any job id is made and the
\* body written to the file "input" in it
BeamUpload(j) ==
    /\ budget > 0
    /\ budget' = budget - 1
    /\ dirs' = Put(dirs, j, now)
    /\ JobsUnchanged

\* a request with the header k that acts as A on the job queue
Keyed(k, A) ==
    /\ x_api_key' = k
    /\ A
    /\ UNCHANGED <<api_key, streamvars, wsvars, errvars, purevars>>

\* POST /transcode/stream with the header k (the handler verifies nothing)
KeyedStreamStart(k) ==
    /\ x_api_key' = k
    /\ StreamStart
    /\ JobsUnchanged
    /\ UNCHANGED <<dirs, api_key, wsvars, errvars, purevars>>

\* -------------------------------------------------------------- WebSockets
\* the elements of a list
Range(list) == {list[i] : i \in DOMAIN list}

\* list.remove(x), x being in the list
Remove(list, x) == SelectSeq(list, LAMBDA y : y # x)

\* the fields of job.progress a message carries, as far as they tell the
\* updates apart: the progress lines parsed so far, and whether transcode()
\* has seen the subprocess end
Snapshot(j) == [n |-> lines[j], fin |-> j \in DOMAIN completed_at]

\* a copy of what the message would have carried when the task was created
SentFromCopy(task) == task.made

\* the message a task's ws.send_json call builds: job.progress is one
\* object, read when the call is made
Sent(task) == Snapshot(task.job)

\* asyncio.create_task(self._async_broadcast(progress)), the progress record
\* reading as `made` at that moment
NewTask(j, made) == [job |-> j, pc |-> "new", conns |-> <<>>, made |-> made]

\* _async_broadcast's loop from the subscriber Head(rest) on, up to the
\* next send_json that suspends: a send to a WebSocket that is not open
\* raises at once, and the handler removes it from the list `list`;
\* list.remove raises ValueError (dead) when it is not in the list any more
RECURSIVE Advance(_, _)
Advance(list, rest) ==
    IF rest = <<>> \/ ws_state[Head(rest)] = "open"
    THEN [list |-> list, rest |-> rest, dead |-> FALSE]
    ELSE IF Head(rest) \in Range(list)
    THEN Advance(Remove(list, Head(rest)), Tail(rest))
    ELSE [list |-> list, rest |-> Tail(rest), dead |-> TRUE]

\* _async_broadcast, from its start or from the send_json it awaits to the
\* next await (or its end).  Tasks start in the order of their creation.
\* The awaited send raises (fails) only on a WebSocket that is no longer
\* open; it returns when the message was written before the connection
\* went.
TaskStep(t, fails) ==
    LET task == tasks[t]
        j == task.job
        list == websocket_connections[j]
        s == Head(task.conns)
        raised == fails
        lost == raised /\ s \notin Range(list)
        after == IF task.pc = "new" THEN Advance(list, list)
                 ELSE IF lost
                 THEN [list |-> list, rest |-> Tail(task.conns), dead |-> TRUE]
                 ELSE IF raised
                 THEN Advance(Remove(list, s), Tail(task.conns))
                 ELSE Advance(list, Tail(task.conns))
    IN /\ task.pc \in {"new", "send"}
       /\ fails => task.pc = "send" /\ ws_state[s] # "open"
       /\ task.pc = "new" => \A u \in 1..(t - 1) : tasks[u].pc # "new"
       /\ websocket_connections' = [websocket_connections EXCEPT ![j] = after.list]
       /\ IF after.dead
          THEN /\ tasks' = [tasks EXCEPT ![t].pc = "dead",
                                         ![t].conns = SelectSeq(after.rest,
                                             LAMBDA x : ws_state[x] = "open")]
               /\ UNCHANGED received
          ELSE IF after.rest = <<>>
          THEN /\ tasks' = [tasks EXCEPT ![t].pc = "done", ![t].conns = <<>>]
               /\ UNCHANGED received
          ELSE /\ tasks' = [tasks EXCEPT ![t].pc = "send", ![t].conns = after.rest]
               /\ received' = [received EXCEPT ![Head(after.rest)] =
                                                  Append(@, Sent(task))]
       /\ UNCHANGED <<lines, ws_state>>

\* websocket_progress: accept, add_websocket, the initial status message of
\* a registered job
WsConnect(s, j) ==
    /\ ws_state[s] = "none"
    /\ ws_state' = [ws_state EXCEPT ![s] = "open"]
    /\ websocket_connections' = [websocket_connections EXCEPT ![j] = Append(@, s)]
    /\ received' = IF j \in jobs
                   THEN [received EXCEPT ![s] = Append(@, Snapshot(j))]
                   ELSE received
    /\ UNCHANGED <<tasks, lines>>

\* the connection of a client is lost; its handler has not noticed yet
WsBreak(s) ==
    /\ ws_state[s] = "open"
    /\ ws_state' = [ws_state EXCEPT ![s] = "broken"]
    /\ UNCHANGED <<websocket_connections, tasks, received, lines>>

\* websocket_progress: WebSocketDisconnect, finally remove_websocket
WsClose(s) ==
    /\ ws_state[s] \in {"open", "broken"}
    /\ ws_state' = [ws_state EXCEPT ![s] = "closed"]
    /\ websocket_connections' =
           [j \in DOMAIN websocket_connections |->
                IF s \in Range(websocket_connections[j])
                THEN Remove(websocket_connections[j], s)
                ELSE websocket_connections[j]]
    /\ UNCHANGED <<tasks, received, lines>>

\* _parse_progress yields after a line "frame=..." or "progress=continue":
\* the progress callback creates a broadcast task
ProgressLine(j) ==
    /\ Alive(j, "w")
    /\ lines[j] < MaxLines
    /\ lines' = [lines EXCEPT ![j] = @ + 1]
    /\ tasks' = Append(tasks, NewTask(j, [n |-> lines[j] + 1, fin |-> FALSE]))
    /\ UNCHANGED <<websocket_connections, received, ws_state>>

\* the same after the line "progress=end"
ProgressEndLine(j) ==
    /\ ProgressEnd(j, "w")
    /\ lines[j] < MaxLines
    /\ lines' = [lines EXCEPT ![j] = @ + 1]
    /\ tasks' = Append(tasks, NewTask(j, [n |-> lines[j] + 1, fin |-> FALSE]))
    /\ UNCHANGED <<websocket_connections, received, ws_state>>

\* the worker's finally after transcode(): the last broadcast of the job
WorkerFinishBroadcast(w) ==
    /\ WorkerFinish(w)
    /\ tasks' = Append(tasks, NewTask(worker[w],
                                      [n |-> lines[worker[w]], fin |-> TRUE]))
    /\ UNCHANGED <<websocket_connections, received, lines, ws_state>>

\* a step of the job queue that broadcasts nothing
NoBroadcast == UNCHANGED <<authvars, streamvars, wsvars, errvars, purevars>>

\* a step of the WebSocket side leaves the job queue alone
WsFrame ==
    /\ JobsUnchanged
    /\ UNCHANGED <<budget, dirs, authvars, streamvars, errvars, purevars>>

\* ------------------------------------------------------- exit and stderr
\* what a subprocess may have written to stderr when it exits: a number of
\* bytes, one character each where they decode, and whether they are valid
\* UTF-8 at all
StderrOutputs ==
    {[len |-> n, valid |-> v] :
        n \in {0, ERROR_TAIL, ERROR_TAIL + 1}, v \in BOOLEAN} \
    {[len |-> 0, valid |-> FALSE]}

\* bytes.decode(): the text, or UnicodeDecodeError
Decode(bytes) == [ok |-> bytes.valid, len |-> IF bytes.valid THEN bytes.len ELSE 0]

\* text[-k:] of a text of len characters: the characters from+1 .. to
LastChars(len, k) ==
    [kind |-> "stderr", from |-> IF len > k THEN len - k ELSE 0, to |-> len]

\* progress.error = str(e)
ErrorOfException == [kind |-> "exception", from |-> 0, to |-> 0]

\* the subprocess exits and leaves its stderr behind
ProcExitStderr(j, d) ==
    /\ ProcExit(j, d)
    /\ \E out \in StderrOutputs : stderr' = [stderr EXCEPT ![j][d] = out]
    /\ UNCHANGED <<error, stdin>>

\* transcode() after communicate(): on a non-zero returncode
\* progress.error = stderr.decode()[-500:]; a decode that raises lands in
\* except Exception: progress.error = str(e)
WorkerFinishError(w) ==
    /\ WorkerFinish(w)
    /\ LET j == worker[w]
           text == Decode(stderr[j][job_process[j]])
       IN error' = IF proc[j][job_process[j]] = "exit0" THEN error
                   ELSE IF text.ok
                   THEN [error EXCEPT ![j] = LastChars(text.len, ERROR_TAIL)]
                   ELSE [error EXCEPT ![j] = ErrorOfException]
    /\ UNCHANGED <<stderr, stdin>>

\* create_subprocess_exec raising: progress.error = str(e)
WorkerSpawnFailError(w) ==
    /\ WorkerSpawnFail(w)
    /\ error' = [error EXCEPT ![Head(queue)] = ErrorOfException]
    /\ UNCHANGED <<stderr, stdin>>

\* beam_stream spawns FFmpeg with a pipe for stdin
BeamStreamStartPipe(j) ==
    /\ BeamStreamStart(j)
    /\ stdin' = [stdin EXCEPT ![j] = "open"]
    /\ UNCHANGED <<stderr, error>>

\* a body loop that ends without closing stdin
BeamBodyEndStdinOpen(j) ==
    /\ BeamBodyEnd(j)
    /\ UNCHANGED <<stderr, error, stdin>>

\* the body loop ends with the body, or breaks because the subprocess has
\* exited: final drain, stdin.close(), wait_closed()
BeamBodyEndClose(j) ==
    /\ BeamBodyEnd(j)
    /\ stdin' = [stdin EXCEPT ![j] = "closed"]
    /\ UNCHANGED <<stderr, error>>

\* a write or drain raises BrokenPipeError or ConnectionResetError: the
\* subprocess has closed its end; a warning is logged and the handler goes
\* on to wait
BeamPipeBroken(j) ==
    /\ BeamBodyEnd(j)
    /\ stdin' = [stdin EXCEPT ![j] = "broken"]
    /\ UNCHANGED <<stderr, error>>

\* any other exception in the body loop: progress.error = str(e)
BeamBodyErrorError(j) ==
    /\ BeamBodyError(j)
    /\ error' = [error EXCEPT ![j] = ErrorOfException]
    /\ UNCHANGED <<stderr, stdin>>

\* beam_stream after process.wait(): status first, then on a non-zero
\* returncode progress.error = stderr_data.decode()[-500:]; a decode that
\* raises leaves progress.error as it was and ends the request
BeamFinishError(j) ==
    /\ BeamFinish(j)
    /\ LET text == Decode(stderr[j]["b"])
       IN error' = IF proc[j]["b"] # "exit0" /\ text.ok
                   THEN [error EXCEPT ![j] = LastChars(text.len, ERROR_TAIL)]
                   ELSE error
    /\ UNCHANGED <<stderr, stdin>>

\* a step that touches neither stderr, progress.error nor the stdin pipe
ExitFrame == UNCHANGED <<authvars, streamvars, wsvars, errvars, purevars>>

\* a step of this section leaves API key, direct stream and WebSockets alone
ErrFrame == UNCHANGED <<authvars, streamvars, wsvars, purevars>>

\* ----------------------------------------------------------- segment files
\* the characters of a file name: an ordinary one, the dot, the separators
NameChars == {"s", ".", "/", "\\"}

\* the file names a client may ask for
Names == UNION {[1..n -> NameChars] : n \in 1..MaxName}

\* the job ids of the requests
JobNames == {<<"j">>, <<"k">>}

\* settings.temp_dir, the worker's working directory, a job's directory
TempDir == << <<"t">> >>
Cwd == << <<"w">> >>
JobDir(job) == Append(TempDir, job)

\* the directories of the filesystem (the root is <<>>)
AllDirs == {<<>>, TempDir, Cwd} \cup {JobDir(job) : job \in JobNames}

\* the places where a regular file may be
Places ==
    {Append(JobDir(job), <<"s">>) : job \in JobNames} \cup
    {Append(TempDir, <<"s">>), Append(Cwd, <<"s">>), Append(Cwd, <<".", "s">>),
     << <<"s">> >>}

\* sub in str
Contains(str, sub) ==
    \E i \in 1..(Len(str) - Len(sub) + 1) :
        SubSeq(str, i, i + Len(sub) - 1) = sub

\* a sanitising test that looks for the separators only
ForbiddenSeparators(filename) ==
    Contains(filename, <<"/">>) \/ Contains(filename, <<"\\">>)

\* beam_get_segment's test: "/" in filename or "\\" in filename or ".." in
\* filename
Forbidden(filename) ==
    \/ Contains(filename, <<"/">>)
    \/ Contains(filename, <<"\\">>)
    \/ Contains(filename, <<".", ".">>)

\* the components of a path string: split at "/", empty components and "."
\* dropped, as pathlib does
RECURSIVE Parts(_, _)
Parts(str, part) ==
    IF str = <<>>
    THEN IF part \in {<<>>, <<".">>} THEN <<>> ELSE <<part>>
    ELSE IF Head(str) = "/"
    THEN (IF part \in {<<>>, <<".">>} THEN <<>> ELSE <<part>>)
             \o Parts(Tail(str), <<>>)
    ELSE Parts(Tail(str), Append(part, Head(str)))

\* the place the components lead to from the directory dir, as the
\* operating system resolves them: ".." is the parent, every step starts in
\* an existing directory
RECURSIVE Walk(_, _)
Walk(dir, parts) ==
    IF parts = <<>> THEN dir
    ELSE IF dir \notin AllDirs THEN Nowhere
    ELSE IF Head(parts) = <<".", ".">>
    THEN Walk(IF dir = <<>> THEN <<>> ELSE SubSeq(dir, 1, Len(dir) - 1),
              Tail(parts))
    ELSE Walk(Append(dir, Head(parts)), Tail(parts))

\* base / str: an absolute str replaces the base
Locate(base, str) ==
    IF Head(str) = "/" THEN Walk(<<>>, Parts(str, <<>>))
    ELSE Walk(base, Parts(str, <<>>))

\* Path.exists()
Exists(path) == path \in files \/ path \in AllDirs

\* FileResponse(path): the file is sent; a path that is no regular file
\* ends in a server error
FileResponse(path, lookups) ==
    IF path \in files
    THEN [code |-> 200, lookups |-> lookups, file |-> path]
    ELSE [code |-> 500, lookups |-> lookups, file |-> Nowhere]

\* GET /beam/segment/{job_id}/{filename}
BeamGetSegmentAnswer(job, filename) ==
    IF Forbidden(filename)
    THEN [code |-> 400, lookups |-> <<>>, file |-> Nowhere]
    ELSE LET path == Locate(JobDir(job), filename) IN
         IF ~Exists(path)
         THEN [code |-> 404, lookups |-> <<path>>, file |-> Nowhere]
         ELSE FileResponse(path, <<path>>)

\* GET /segments/{job_id}/{filename}: the job's directory, then the
\* worker's working directory
GetSegmentAnswer(job, filename) ==
    LET segment_path == Locate(JobDir(job), filename)
        fallback == Locate(Cwd, filename)
    IN IF Exists(segment_path)
       THEN FileResponse(segment_path, <<segment_path>>)
       ELSE IF ~Exists(fallback)
       THEN [code |-> 404, lookups |-> <<segment_path, fallback>>,
             file |-> Nowhere]
       ELSE FileResponse(fallback, <<segment_path, fallback>>)

\* the request and its answer
Answered(endpoint, job, filename, answer) ==
    response' = [endpoint |-> endpoint, job |-> job, filename |-> filename,
                 code |-> answer.code, lookups |-> answer.lookups,
                 file |-> answer.file]

BeamGetSegment(job, filename) ==
    /\ Answered("beam", job, filename, BeamGetSegmentAnswer(job, filename))
    /\ UNCHANGED files

GetSegment(job, filename) ==
    /\ Answered("segments", job, filename, GetSegmentAnswer(job, filename))
    /\ UNCHANGED files

\* a file appears: FFmpeg writes an output, an upload is stored, the
\* worker is installed with its own files
WriteFile(place) ==
    /\ files' = files \cup {place}
    /\ UNCHANGED response

\* a step of the segment endpoints leaves everything else alone
SegFrame ==
    /\ JobsUnchanged
    /\ UNCHANGED <<budget, dirs, authvars, streamvars, wsvars, errvars, pathvars,
                   cmdvars, stopvars, pipevars, progvars>>

\* ------------------------------------------------------------ path mapper
\* A string is the sequence of its lexemes: single characters where the
\* code looks at characters, whole words (option names, codec names)
\* where it compares whole strings.

\* str.startswith(prefix)
StartsWith(str, prefix) ==
    Len(prefix) <= Len(str) /\ SubSeq(str, 1, Len(prefix)) = prefix

\* str.strip()
RECURSIVE Strip(_)
Strip(str) ==
    IF str = <<>> THEN str
    ELSE IF Head(str) = " " THEN Strip(Tail(str))
    ELSE IF str[Len(str)] = " " THEN Strip(SubSeq(str, 1, Len(str) - 1))
    ELSE str

\* str.split(sep), the piece under way being `piece`
RECURSIVE Split(_, _, _)
Split(str, sep, piece) ==
    IF str = <<>> THEN <<piece>>
    ELSE IF Head(str) = sep THEN <<piece>> \o Split(Tail(str), sep, <<>>)
    ELSE Split(Tail(str), sep, Append(piece, Head(str)))

\* str.split(sep, 1)
RECURSIVE SplitOnce(_, _, _)
SplitOnce(str, sep, piece) ==
    IF str = <<>> THEN <<piece>>
    ELSE IF Head(str) = sep THEN <<piece, Tail(str)>>
    ELSE SplitOnce(Tail(str), sep, Append(piece, Head(str)))

\* the (from, to) pairs of the path_mappings setting, in its order
RECURSIVE ParsePairs(_)
ParsePairs(pairs) ==
    IF pairs = <<>> THEN <<>>
    ELSE LET pair == Strip(Head(pairs))
             halves == SplitOnce(pair, "=", <<>>)
         IN (IF Len(halves) = 2
             THEN <<[from |-> Strip(halves[1]), to |-> Strip(halves[2])]>>
             ELSE <<>>) \o ParsePairs(Tail(pairs))

\* the pairs in the order of the configuration
ConfiguredMappings(cfg) ==
    (IF cfg.media_path_from # <<>> /\ cfg.media_path_to # <<>>
     THEN <<[from |-> cfg.media_path_from, to |-> cfg.media_path_to]>>
     ELSE <<>>)
    \o (IF cfg.path_mappings # <<>>
        THEN ParsePairs(Split(cfg.path_mappings, ";", <<>>))
        ELSE <<>>)

\* list.sort(key=len(from), reverse=True): stable, equal lengths keep
\* their order
RECURSIVE InsertByLength(_, _)
InsertByLength(sorted, m) ==
    IF sorted = <<>> THEN <<m>>
    ELSE IF Len(Head(sorted).from) >= Len(m.from)
    THEN <<Head(sorted)>> \o InsertByLength(Tail(sorted), m)
    ELSE <<m>> \o sorted

RECURSIVE SortLongestFirst(_, _)
SortLongestFirst(list, sorted) ==
    IF list = <<>> THEN sorted
    ELSE SortLongestFirst(Tail(list), InsertByLength(sorted, Head(list)))

\* the mappings in the order of the configuration, unsorted
GetPathMappingsUnsorted(cfg) == ConfiguredMappings(cfg)

\* WorkerSettings.get_path_mappings
GetPathMappings(cfg) == SortLongestFirst(ConfiguredMappings(cfg), <<>>)

\* for frm, to in path_mappings: if arg.startswith(frm): arg = to +
\* arg[len(frm):]; break
RECURSIVE MapPath(_, _)
MapPath(mappings, arg) ==
    IF mappings = <<>> THEN arg
    ELSE IF StartsWith(arg, Head(mappings).from)
    THEN Head(mappings).to \o SubSeq(arg, Len(Head(mappings).from) + 1, Len(arg))
    ELSE MapPath(Tail(mappings), arg)

\* the path settings a worker may be configured with
MappingChoices ==
    {[media_path_from |-> <<>>, media_path_to |-> <<>>, path_mappings |-> <<>>],
     [media_path_from |-> <<"/", "m">>, media_path_to |-> <<"/", "k">>,
      path_mappings |-> <<>>],
     [media_path_from |-> <<>>, media_path_to |-> <<>>,
      path_mappings |-> <<"/", "m", "=", "/", "k", ";",
                          "/", "m", "/", "c", "=", "/", "j">>],
     [media_path_from |-> <<>>, media_path_to |-> <<>>,
      path_mappings |-> <<"/", "m", "/", "c", "=", "/", "j", ";", " ",
                          "/", "m", "=", "/", "k">>],
     [media_path_from |-> <<"/", "m">>, media_path_to |-> <<"/", "k">>,
      path_mappings |-> <<"/", "m", "/", "c", "=", "/", "j">>],
     [media_path_from |-> <<>>, media_path_to |-> <<>>,
      path_mappings |-> <<"/", "m", "=", "/", "m", "/", "c">>],
     [media_path_from |-> <<>>, media_path_to |-> <<>>,
      path_mappings |-> <<"/", "m", "=", "/", "k", ";", "/", "c">>]}

\* the accelerators the hw_accel setting may name
Accelerators == {"qsv", "nvenc", "vaapi", "none"}

\* the settings a worker may be started with
SettingsChoices ==
    {[hw_accel |-> a, media_path_from |-> m.media_path_from,
      media_path_to |-> m.media_path_to, path_mappings |-> m.path_mappings] :
        a \in Accelerators, m \in MappingChoices}

\* the arguments the mapper is given
PathChars == {"/", "m", "c"}
Paths == UNION {[1..n -> PathChars] : n \in 1..MaxPath}

\* settings = WorkerSettings(): the environment sets the fields before the
\* worker handles anything
LoadSettings(cfg) ==
    /\ settings = DefaultSettings
    /\ mapped = NoMapped
    /\ settings' = cfg
    /\ UNCHANGED mapped

\* the path mapper applied to one argument
MapArgument(arg) ==
    /\ mapped' = [arg |-> arg, out |-> MapPath(GetPathMappings(settings), arg)]
    /\ UNCHANGED settings

\* a step of the path mapper leaves everything else alone
PathFrame ==
    /\ JobsUnchanged
    /\ UNCHANGED <<budget, dirs, authvars, streamvars, wsvars, errvars, segvars,
                   cmdvars, stopvars, pipevars, progvars>>

\* -------------------------------------------------- rewriter: extraction
\* An argument vector is a sequence of arguments, an argument a sequence
\* of lexemes (see the path mapper).  None and the empty string are both
\* <<>>: the code only tests them for truth.

Digits == {"0", "1", "2", "3", "4", "5", "6", "7", "8", "9"}
HexDigits == Digits \cup {"a", "b", "c", "d", "e", "f", "A", "B", "C", "D", "E", "F"}

\* int(ch, 16) of one hexadecimal digit
HexValue(ch) ==
    CASE ch = "0" -> 0 [] ch = "1" -> 1 [] ch = "2" -> 2 [] ch = "3" -> 3
      [] ch = "4" -> 4 [] ch = "5" -> 5 [] ch = "6" -> 6 [] ch = "7" -> 7
      [] ch = "8" -> 8 [] ch = "9" -> 9
      [] ch \in {"a", "A"} -> 10 [] ch \in {"b", "B"} -> 11
      [] ch \in {"c", "C"} -> 12 [] ch \in {"d", "D"} -> 13
      [] ch \in {"e", "E"} -> 14 [] ch \in {"f", "F"} -> 15

\* int(digits, base), the value of the digits read so far being acc
RECURSIVE IntOf(_, _, _)
IntOf(digits, base, acc) ==
    IF digits = <<>> THEN acc
    ELSE IntOf(Tail(digits), base, acc * base + HexValue(Head(digits)))

\* str(n) for a natural number
RECURSIVE StrOfNat(_)
StrOfNat(n) ==
    LET digit == <<"0", "1", "2", "3", "4", "5", "6", "7", "8", "9">>[(n % 10) + 1]
    IN IF n < 10 THEN <<digit>> ELSE Append(StrOfNat(n \div 10), digit)

\* the length of the longest prefix of str made of lexemes of the set
RECURSIVE RunLength(_, _)
RunLength(str, set) ==
    IF str = <<>> \/ Head(str) \notin set THEN 0
    ELSE 1 + RunLength(Tail(str), set)

\* re.sub(r'#0x([0-9a-fA-F]+)', lambda m: str(int(m.group(1), 16)), str)
RECURSIVE SubHex(_)
SubHex(str) ==
    IF str = <<>> THEN <<>>
    ELSE LET run == IF StartsWith(str, <<"#", "0", "x">>)
                    THEN RunLength(SubSeq(str, 4, Len(str)), HexDigits)
                    ELSE 0
         IN IF run > 0
            THEN StrOfNat(IntOf(SubSeq(str, 4, 3 + run), 16, 0))
                     \o SubHex(SubSeq(str, 4 + run, Len(str)))
            ELSE <<Head(str)>> \o SubHex(Tail(str))

\* re.sub(r'\[0:\d+\]', '[0:a:0]', str, count=1)
RECURSIVE SubFirstAbsolute(_)
SubFirstAbsolute(str) ==
    IF str = <<>> THEN <<>>
    ELSE LET run == IF StartsWith(str, <<"[", "0", ":">>)
                    THEN RunLength(SubSeq(str, 4, Len(str)), Digits)
                    ELSE 0
         IN IF run > 0 /\ Len(str) >= 4 + run /\ str[4 + run] = "]"
            THEN <<"[", "0", ":", "a", ":", "0", "]">>
                     \o SubSeq(str, 5 + run, Len(str))
            ELSE <<Head(str)>> \o SubFirstAbsolute(Tail(str))

\* str.replace(old, new) for a lexeme
ReplaceLexeme(str, old, new) ==
    [k \in DOMAIN str |-> IF str[k] = old THEN new ELSE str[k]]

\* re.match(r'0:\d+$', str)
IsAbsoluteIndex(str) ==
    /\ StartsWith(str, <<"0", ":">>)
    /\ Len(str) >= 3
    /\ \A k \in 3..Len(str) : str[k] \in Digits

\* re.search(r'\[(\d+)\]$', fc): the label "[N]" fc ends with, or <<>>
RECURSIVE DigitsBefore(_, _)
DigitsBefore(str, k) ==
    IF k >= 1 /\ str[k] \in Digits THEN 1 + DigitsBefore(str, k - 1) ELSE 0

TrailingLabel(fc) ==
    LET run == IF fc # <<>> /\ fc[Len(fc)] = "]"
               THEN DigitsBefore(fc, Len(fc) - 1) ELSE 0
    IN IF run > 0 /\ Len(fc) - run - 1 >= 1 /\ fc[Len(fc) - run - 1] = "["
       THEN SubSeq(fc, Len(fc) - run - 1, Len(fc))
       ELSE <<>>

\* 'aresample' in fc
HasAresample(fc) == \E k \in DOMAIN fc : fc[k] = "aresample="

\* self._ffmpeg_major when the version cannot be detected
FfmpegMajor == 4

\* the first pass of _extract_plex_info: the label the last resampling
\* -filter_complex ends with
RECURSIVE AudioOutputLabel(_, _, _)
AudioOutputLabel(raw_args, i, label) ==
    IF i > Len(raw_args) THEN label
    ELSE IF /\ raw_args[i] = <<"-filter_complex">>
            /\ i + 1 <= Len(raw_args)
            /\ HasAresample(raw_args[i + 1])
            /\ TrailingLabel(raw_args[i + 1]) # <<>>
    THEN AudioOutputLabel(raw_args, i + 1, TrailingLabel(raw_args[i + 1]))
    ELSE AudioOutputLabel(raw_args, i + 1, label)

\* a video stream is always assumed
HasVideoAlways(raw_args) == TRUE

\* has_video: no -vn and no option starting with -eae_prefix
HasVideo(raw_args) ==
    /\ <<"-vn">> \notin Range(raw_args)
    /\ \A k \in DOMAIN raw_args :
          raw_args[k] = <<>> \/ Head(raw_args[k]) # "-eae_prefix"

\* re.match(r'-codec:\d+', arg) and its like: the option name and a digit
IsStreamOption(arg, name) ==
    Len(arg) >= 2 /\ arg[1] = name /\ arg[2] \in Digits

\* int(arg.split(':')[1])
StreamIndex(arg) ==
    IntOf(SubSeq(arg, 2, 1 + RunLength(Tail(arg), Digits)), 10, 0)

\* the info dictionary before the scan
EmptyInfo(raw_args) ==
    [input_path |-> <<>>, seek |-> <<>>, duration |-> <<>>,
     start_at_zero |-> FALSE, copyts |-> FALSE, framerate |-> <<>>,
     keyframe_expr |-> <<>>, audio_filter |-> <<>>, audio_streams |-> <<>>,
     metadata |-> <<>>, output_format |-> <<>>, output_path |-> <<>>,
     has_video |-> HasVideo(raw_args), map_count |-> 0]

\* info['audio_streams'][audio_idx][field] = value when the index exists
SetAudio(info, arg, field, value) ==
    LET audio_idx == StreamIndex(arg) - (IF info.has_video THEN 1 ELSE 0)
    IN IF 0 <= audio_idx /\ audio_idx < Len(info.audio_streams)
       THEN [info EXCEPT !.audio_streams[audio_idx + 1][field] = value]
       ELSE info

\* the value -map leaves in the audio stream: hexadecimal ids in decimal,
\* an absolute index other than 0:0 as 0:a:0
MapValue(nxt) ==
    LET map_val == SubHex(nxt)
    IN IF IsAbsoluteIndex(map_val) /\ map_val # <<"0", ":", "0">>
       THEN <<"0", ":", "a", ":", "0">>
       ELSE map_val

\* the value -filter_complex leaves as the audio filter
AudioFilter(nxt) ==
    LET af == SubFirstAbsolute(SubHex(nxt))
    IN IF FfmpegMajor < 5 THEN ReplaceLexeme(af, "ochl=", "ocl=") ELSE af

\* one round of the second pass of _extract_plex_info, at argument i: the
\* info it leaves and the number of arguments it consumes
ExtractStep(raw_args, i, label, info) ==
    LET arg == raw_args[i]
        nxt == IF i + 1 <= Len(raw_args) THEN raw_args[i + 1] ELSE <<>>
        has == nxt # <<>>
        two(next_info) == [info |-> next_info, consumed |-> 2]
        one(next_info) == [info |-> next_info, consumed |-> 1]
    IN
    IF arg = <<"-i">> /\ has THEN two([info EXCEPT !.input_path = nxt])
    ELSE IF arg = <<"-ss">> /\ has THEN two([info EXCEPT !.seek = nxt])
    ELSE IF arg = <<"-t">> /\ has THEN two([info EXCEPT !.duration = nxt])
    ELSE IF arg = <<"-start_at_zero">>
    THEN one([info EXCEPT !.start_at_zero = TRUE])
    ELSE IF arg = <<"-copyts">> THEN one([info EXCEPT !.copyts = TRUE])
    ELSE IF StartsWith(arg, <<"-r:">>) /\ has
    THEN two([info EXCEPT !.framerate = nxt])
    ELSE IF StartsWith(arg, <<"-force_key_frames:">>) /\ has
    THEN two([info EXCEPT !.keyframe_expr = nxt])
    ELSE IF arg = <<"-filter_complex">> /\ has
    THEN two(IF HasAresample(nxt)
             THEN [info EXCEPT !.audio_filter = AudioFilter(nxt)]
             ELSE info)
    ELSE IF arg = <<"-map">> /\ has
    THEN IF info.has_video /\ info.map_count = 0 /\ MapValue(nxt) # label
         THEN two([info EXCEPT !.map_count = 1])
         ELSE two([info EXCEPT
                      !.map_count = @ + 1,
                      !.audio_streams =
                          Append(@, [map |-> MapValue(nxt), codec |-> <<>>,
                                     bitrate |-> <<>>, copypriorss |-> <<>>])])
    ELSE IF IsStreamOption(arg, "-codec:") /\ has
    THEN two(SetAudio(info, arg, "codec",
                      IF nxt = <<"aac_lc">> THEN <<"aac">> ELSE nxt))
    ELSE IF IsStreamOption(arg, "-b:") /\ has
    THEN two(SetAudio(info, arg, "bitrate", nxt))
    ELSE IF IsStreamOption(arg, "-copypriorss:") /\ has
    THEN two(SetAudio(info, arg, "copypriorss", nxt))
    ELSE IF StartsWith(arg, <<"-metadata:s:">>) /\ has
    THEN two([info EXCEPT !.metadata = Append(@, <<arg, nxt>>)])
    ELSE IF arg = <<"-f">> /\ has THEN two([info EXCEPT !.output_format = nxt])
    ELSE one(info)

\* the second pass of _extract_plex_info from argument i on
RECURSIVE ExtractFrom(_, _, _, _)
ExtractFrom(raw_args, i, label, info) ==
    IF i > Len(raw_args) THEN info
    ELSE LET step == ExtractStep(raw_args, i, label, info)
         IN ExtractFrom(raw_args, i + step.consumed, label, step.info)

\* the lexemes that begin with "-"
Dashed ==
    {"-i", "-ss", "-t", "-start_at_zero", "-copyts", "-r:", "-force_key_frames:",
     "-filter_complex", "-map", "-codec:", "-b:", "-copypriorss:",
     "-metadata:s:", "-f", "-vn", "-eae_prefix", "-y", "-vf", "-c:v", "-c:v:0",
     "-vcodec", "-c:a", "-hwaccel", "-hwaccel_output_format", "-qsv_device",
     "-vaapi_device", "-extra_hw_frames", "-preset", "-preset:0", "-tune",
     "-rc", "-qp", "-rc-lookahead", "-delay", "-bf", "-multipass", "-maxrate",
     "-bufsize", "-global_quality", "-low_power", "-async_depth", "-crf",
     "-crf:0", "-x264opts", "-dash_segment_type", "-avoid_negative_ts",
     "-map_metadata", "-map_chapters", "-seg_duration", "-hls_playlist_type",
     "-forced-idr", "-g", "-b:v", "-1", "-2"}

\* _extract_plex_info
ExtractPlexInfo(raw_args) ==
    LET last == raw_args[Len(raw_args)]
    IN [ExtractFrom(raw_args, 1, AudioOutputLabel(raw_args, 1, <<>>),
                    EmptyInfo(raw_args))
        EXCEPT !.output_path =
            IF raw_args # <<>> /\ last # <<>> /\ Head(last) \notin Dashed
            THEN last ELSE @]

\* ------------------------------------------------ rewriter: dialect A
\* a list of arguments of one lexeme each
Words(list) == [k \in DOMAIN list |-> <<list[k]>>]

\* the settings the rewriter reads that stay at their defaults
QsvDevice == <<>>
QsvLowPower == TRUE
NvencTune == <<"ull">>
BeamMaxBitrate == <<>>
DefaultRenderDevice == <<"/dev/dri/renderD128">>

\* str(path) of a path given by its components
RECURSIVE StrOfPath(_)
StrOfPath(path) ==
    IF path = <<>> THEN <<>>
    ELSE <<"/">> \o Head(path) \o StrOfPath(Tail(path))

\* str(settings.temp_dir / job_id / "input")
UploadedInput(job_id) == StrOfPath(Append(JobDir(job_id), <<"input">>))

\* Path(str).name
RECURSIVE PathName(_)
PathName(str) ==
    IF str = <<>> THEN <<>>
    ELSE IF str[Len(str)] = "/" THEN PathName(SubSeq(str, 1, Len(str) - 1))
    ELSE IF \E k \in DOMAIN str : str[k] = "/"
    THEN LET last == CHOOSE k \in DOMAIN str :
                        str[k] = "/" /\ \A m \in (k + 1)..Len(str) : str[m] # "/"
         IN SubSeq(str, last + 1, Len(str))
    ELSE str

\* the hardware setup dialect A puts before -i
PlexHwaccel(has_video, hw_accel) ==
    IF ~has_video THEN <<>>
    ELSE IF hw_accel = "qsv"
    THEN Words(<<"-hwaccel", "qsv">>)
         \o (IF QsvDevice # <<>> THEN <<<<"-qsv_device">>, QsvDevice>> ELSE <<>>)
         \o Words(<<"-hwaccel_output_format", "qsv", "-extra_hw_frames", "8">>)
    ELSE IF hw_accel = "vaapi"
    THEN Words(<<"-hwaccel", "vaapi", "-vaapi_device">>)
         \o <<IF QsvDevice # <<>> THEN QsvDevice ELSE DefaultRenderDevice>>
    ELSE <<>>

\* a seek that always stands before the input
SeekBeforeAlways(info, beam_stream) ==
    IF info.seek # <<>> THEN <<<<"-ss">>, info.seek>> ELSE <<>>

\* the seek before the input: for files only
SeekBefore(info, beam_stream) ==
    IF info.seek # <<>> /\ ~beam_stream THEN <<<<"-ss">>, info.seek>> ELSE <<>>

\* the seek after the input: for the pipe only
SeekAfter(info, beam_stream) ==
    IF info.seek # <<>> /\ beam_stream THEN <<<<"-ss">>, info.seek>> ELSE <<>>

\* the input of dialect A
PlexInput(info, path_mappings, job_id, beam_stream, beam_mode) ==
    IF beam_mode
    THEN <<<<"-i">>, IF beam_stream THEN <<"pipe:0">> ELSE UploadedInput(job_id)>>
    ELSE <<<<"-i">>, MapPath(path_mappings, info.input_path)>>

\* the video pipeline of dialect A
PlexVideo(info, hw_accel, beam_mode) ==
    IF ~info.has_video THEN <<>>
    ELSE
    Words(<<"-map">>) \o <<<<"0", ":", "v", ":", "0">>>>
    \o (IF hw_accel = "nvenc"
        THEN <<<<"-vf">>,
               <<"scale=", "1920", ":", "-2", ":", "flags=fast_bilinear", ":",
                 "sws_dither=none", ",", "format=", "nv12", ",", "hwupload_cuda">>>>
             \o Words(<<"-c:v", "h264_nvenc">>)
             \o (IF beam_mode /\ BeamMaxBitrate # <<>>
                 THEN Words(<<"-preset", "p1", "-tune", "ull", "-rc", "cbr", "-b:v">>)
                      \o <<BeamMaxBitrate>>
                      \o Words(<<"-rc-lookahead", "0", "-delay", "0", "-bf", "0",
                                 "-multipass", "disabled", "-forced-idr", "1",
                                 "-g", "24", "-maxrate">>)
                      \o <<BeamMaxBitrate, <<"-bufsize">>, BeamMaxBitrate>>
                 ELSE Words(<<"-preset", "p1", "-tune", "ull", "-rc", "constqp",
                              "-qp", "25", "-rc-lookahead", "0", "-delay", "0",
                              "-bf", "0", "-multipass", "disabled",
                              "-maxrate", "10M", "-bufsize", "5M">>))
        ELSE IF hw_accel = "qsv"
        THEN <<<<"-vf">>,
               <<"scale_qsv=", "w=", "1920", ":", "h=", "-1", ":", "format=", "nv12">>>>
             \o Words(<<"-c:v", "h264_qsv", "-preset", "veryfast",
                        "-global_quality", "25", "-low_power", "1",
                        "-async_depth", "1">>)
        ELSE IF hw_accel = "vaapi"
        THEN <<<<"-vf">>,
               <<"scale=", "1920", ":", "-2", ":", "flags=fast_bilinear", ",",
                 "format=", "nv12", ",", "hwupload">>>>
             \o Words(<<"-c:v", "h264_vaapi", "-low_power", "1", "-qp", "25">>)
        ELSE <<<<"-vf">>,
               <<"scale=", "1920", ":", "-2", ":", "flags=fast_bilinear", ":",
                 "sws_dither=none">>>>
             \o Words(<<"-c:v", "libx264", "-preset", "veryfast", "-crf", "25">>))
    \o (IF info.framerate # <<>> THEN <<<<"-r:", "0">>, info.framerate>> ELSE <<>>)
    \o (IF info.keyframe_expr # <<>>
        THEN <<<<"-force_key_frames:", "0">>, info.keyframe_expr>> ELSE <<>>)

\* the options of the audio streams from stream idx (counted from 0) on
RECURSIVE PlexAudio(_, _, _)
PlexAudio(audio_streams, idx, has_video) ==
    IF idx >= Len(audio_streams) THEN <<>>
    ELSE
    LET audio == audio_streams[idx + 1]
        stream_idx == StrOfNat(idx + (IF has_video THEN 1 ELSE 0))
    IN <<<<"-map">>, audio.map>>
       \o (IF audio.codec # <<>>
           THEN <<<<"-codec:">> \o stream_idx, audio.codec>> ELSE <<>>)
       \o (IF audio.bitrate # <<>>
           THEN <<<<"-b:">> \o stream_idx, audio.bitrate>> ELSE <<>>)
       \o (IF audio.copypriorss # <<>>
           THEN <<<<"-copypriorss:">> \o stream_idx, audio.copypriorss>> ELSE <<>>)
       \o PlexAudio(audio_streams, idx + 1, has_video)

\* the metadata options, as they came
RECURSIVE PlexMetadata(_)
PlexMetadata(metadata) ==
    IF metadata = <<>> THEN <<>>
    ELSE <<Head(metadata)[1], Head(metadata)[2]>> \o PlexMetadata(Tail(metadata))

\* the output path of dialect A
PlexOutput(info, path_mappings, job_id, beam_mode, out_fmt) ==
    IF beam_mode
    THEN LET name == IF info.output_path # <<>>
                     THEN PathName(info.output_path) ELSE <<"dash">>
             file == IF name \in {<<"dash">>, <<"hls">>, <<>>}
                     THEN IF out_fmt = <<"dash">>
                          THEN <<"output.mpd">> ELSE <<"output.m3u8">>
                     ELSE name
         IN StrOfPath(Append(JobDir(job_id), file))
    ELSE MapPath(path_mappings,
                 IF info.output_path # <<>> THEN info.output_path ELSE <<"dash">>)

\* the command _build_plex_command puts together from the extracted info
PlexCommand(info, path_mappings, hw_accel, job_id, beam_stream, beam_mode) ==
    LET out_fmt == IF info.output_format # <<>>
                   THEN info.output_format ELSE <<"dash">>
    IN PlexHwaccel(info.has_video, hw_accel)
       \o SeekBefore(info, beam_stream)
       \o PlexInput(info, path_mappings, job_id, beam_stream, beam_mode)
       \o SeekAfter(info, beam_stream)
       \o (IF info.start_at_zero THEN Words(<<"-start_at_zero">>) ELSE <<>>)
       \o (IF info.copyts THEN Words(<<"-copyts">>) ELSE <<>>)
       \o (IF info.duration # <<>> THEN <<<<"-t">>, info.duration>> ELSE <<>>)
       \o Words(<<"-y">>)
       \o PlexVideo(info, hw_accel, beam_mode)
       \o (IF info.audio_filter # <<>>
           THEN <<<<"-filter_complex">>, info.audio_filter>> ELSE <<>>)
       \o PlexAudio(info.audio_streams, 0, info.has_video)
       \o PlexMetadata(info.metadata)
       \o <<<<"-f">>, out_fmt>>
       \o (IF out_fmt = <<"dash">>
           THEN Words(<<"-dash_segment_type", "mp4">>) ELSE <<>>)
       \o Words(<<"-avoid_negative_ts", "disabled", "-map_metadata", "-1",
                  "-map_chapters", "-1">>)
       \o (IF beam_mode THEN Words(<<"-seg_duration", "1">>) ELSE <<>>)
       \o <<PlexOutput(info, path_mappings, job_id, beam_mode, out_fmt)>>

\* _build_plex_command; exists tells whether the job's input was uploaded
BuildPlexCommand(cfg, job_id, raw_args, beam_stream, exists) ==
    PlexCommand(ExtractPlexInfo(raw_args), GetPathMappings(cfg), cfg.hw_accel,
                job_id, beam_stream, beam_stream \/ exists)

\* ------------------------------------------------ rewriter: dialect B
\* _split_scale_args: split on ":" outside parentheses
RECURSIVE SplitScaleArgs(_, _, _)
SplitScaleArgs(body, current, depth) ==
    IF body = <<>> THEN <<current>>
    ELSE IF Head(body) = ":" /\ depth = 0
    THEN <<current>> \o SplitScaleArgs(Tail(body), <<>>, depth)
    ELSE SplitScaleArgs(Tail(body), Append(current, Head(body)),
                        IF Head(body) = "(" THEN depth + 1
                        ELSE IF Head(body) = ")" THEN depth - 1
                        ELSE depth)

\* the loop of _convert_vf_to_gpu over the filters: the width and height of
\* the last scale filter, <<>> when a filter cannot be converted
RECURSIVE ScaleOf(_, _)
ScaleOf(filters, scale) ==
    IF filters = <<>> THEN scale
    ELSE LET f == Strip(Head(filters))
         IN IF StartsWith(f, <<"scale=">>)
            THEN LET parts == SplitScaleArgs(Tail(f), <<>>, 0)
                 IN ScaleOf(Tail(filters),
                            IF Len(parts) >= 2 THEN <<parts[1], parts[2]>>
                            ELSE <<parts[1], <<"-1">>>>)
            ELSE IF StartsWith(f, <<"format=">>) \/ StartsWith(f, <<"setparams=">>)
            THEN ScaleOf(Tail(filters), scale)
            ELSE <<>>

\* no filter chain can be converted
ConvertVfToGpuNone(vf_value, hw_accel) == <<>>

\* _convert_vf_to_gpu: the GPU filter chain, <<>> for None
ConvertVfToGpu(vf_value, hw_accel) ==
    IF \E k \in DOMAIN vf_value : vf_value[k] \in {"subtitles=", "ass=", "overlay"}
    THEN <<>>
    ELSE
    LET scale == ScaleOf(Split(vf_value, ",", <<>>), <<<<>>, <<>>>>)
        w == scale[1]
        h == IF scale[2] = <<"-2">> THEN <<"-1">> ELSE scale[2]
    IN IF scale = <<>> \/ scale = <<<<>>, <<>>>> THEN <<>>
       ELSE IF hw_accel = "qsv"
       THEN <<"scale_qsv=", "w=">> \o w \o <<":", "h=">> \o h
                \o <<":", "format=", "nv12">>
       ELSE IF hw_accel = "nvenc"
       THEN <<"scale_cuda=">> \o w \o <<":">> \o h \o <<":", "format=", "nv12">>
       ELSE IF hw_accel = "vaapi"
       THEN <<"scale=", "w=">> \o w \o <<":", "h=">> \o scale[2]
                \o <<":", "flags=fast_bilinear", ",", "format=", "nv12", ",",
                     "hwupload">>
       ELSE <<>>

\* WorkerSettings.get_video_encoder
GetVideoEncoder(cfg) ==
    IF cfg.hw_accel = "qsv" THEN <<"h264_qsv">>
    ELSE IF cfg.hw_accel = "nvenc" THEN <<"h264_nvenc">>
    ELSE IF cfg.hw_accel = "vaapi" THEN <<"h264_vaapi">>
    ELSE <<"libx264">>

\* the options that name the video encoder, and the software encoders
EncoderFlags ==
    {<<"-codec:", "v", ":", "0">>, <<"-codec:", "0">>, <<"-c:v">>, <<"-c:v:0">>,
     <<"-vcodec">>}
SoftwareEncoders == {<<"libx264">>, <<"libx265">>}

\* needs_hw_replace
NeedsHwReplace(hw_accel, raw_args) ==
    /\ hw_accel # "none"
    /\ \E i \in DOMAIN raw_args :
          /\ raw_args[i] \in EncoderFlags
          /\ i + 1 <= Len(raw_args)
          /\ raw_args[i + 1] \in SoftwareEncoders

\* the file: prefix of Jellyfin stripped
StripFile(arg) ==
    IF StartsWith(arg, <<"file:", "\"">>) /\ arg[Len(arg)] = "\""
    THEN SubSeq(arg, 3, Len(arg) - 1)
    ELSE IF StartsWith(arg, <<"file:">>) THEN Tail(arg)
    ELSE arg

\* an -x264opts option is kept whatever the accelerator
StripsX264optsNever(hw_accel, arg) == FALSE

\* an -x264opts option is dropped with its value unless the encoder stays
\* in software
StripsX264opts(hw_accel, arg) ==
    hw_accel # "none" /\ StartsWith(arg, <<"-x264opts">>)

\* the names an argument goes through before the path mapper
Renamed(hw_accel, raw_args, i, arg) ==
    LET prev == IF i > 1 THEN raw_args[i - 1] ELSE <<>>
        preset == IF /\ hw_accel \in {"qsv", "nvenc"}
                     /\ i > 1
                     /\ prev \in {<<"-preset">>, <<"-preset:0">>}
                     /\ arg \in {<<"ultrafast">>, <<"superfast">>}
                  THEN <<"veryfast">> ELSE arg
        codec == IF preset = <<"libfdk_aac">> THEN <<"aac">> ELSE preset
    IN IF codec = <<"vod">> /\ i > 1 /\ prev = <<"-hls_playlist_type">>
       THEN <<"event">> ELSE codec

\* one round of the loop of _filter_standard_args, at argument i: what it
\* appends to filtered_args and the number of arguments it consumes
FilterStep(cfg, job_id, raw_args, i, beam_stream, beam_mode) ==
    LET hw_accel == cfg.hw_accel
        needs_hw_replace == NeedsHwReplace(hw_accel, raw_args)
        arg == StripFile(raw_args[i])
        has == i + 1 <= Len(raw_args)
        gpu_vf == IF has THEN ConvertVfToGpu(raw_args[i + 1], hw_accel) ELSE <<>>
        skip(appended) == [appended |-> appended, consumed |-> 2]
        go(appended) == [appended |-> appended, consumed |-> 1]
    IN
    IF beam_mode /\ arg = <<"-i">> /\ has
    THEN skip(<<<<"-i">>,
                IF beam_stream THEN <<"pipe:0">> ELSE UploadedInput(job_id)>>)
    ELSE IF arg = <<"-vf">> /\ has /\ needs_hw_replace /\ gpu_vf # <<>>
    THEN skip(<<<<"-vf">>, gpu_vf>>)
    ELSE IF /\ needs_hw_replace
            /\ arg \in EncoderFlags
            /\ has
            /\ raw_args[i + 1] \in SoftwareEncoders
    THEN skip(<<arg, GetVideoEncoder(cfg)>>
              \o (IF hw_accel = "qsv"
                  THEN (IF QsvLowPower THEN Words(<<"-low_power", "1">>) ELSE <<>>)
                       \o Words(<<"-async_depth", "1">>)
                  ELSE IF hw_accel = "nvenc" THEN <<<<"-tune">>, NvencTune>>
                  ELSE <<>>))
    ELSE IF StripsX264opts(hw_accel, arg) THEN skip(<<>>)
    ELSE IF needs_hw_replace /\ arg \in {<<"-maxrate">>, <<"-bufsize">>}
    THEN skip(<<>>)
    ELSE IF hw_accel = "qsv" /\ arg \in {<<"-crf">>, <<"-crf:0">>}
    THEN go(Words(<<"-global_quality">>))
    ELSE IF hw_accel = "vaapi" /\ arg \in {<<"-preset">>, <<"-preset:0">>}
    THEN skip(<<>>)
    ELSE LET named == Renamed(hw_accel, raw_args, i, arg)
         IN go(<<IF beam_mode THEN named
                 ELSE MapPath(GetPathMappings(cfg), named)>>)

\* the loop of _filter_standard_args from argument i on
RECURSIVE FilterFrom(_, _, _, _, _, _, _)
FilterFrom(cfg, job_id, raw_args, i, beam_stream, beam_mode, filtered_args) ==
    IF i > Len(raw_args) THEN filtered_args
    ELSE LET step == FilterStep(cfg, job_id, raw_args, i, beam_stream, beam_mode)
         IN FilterFrom(cfg, job_id, raw_args, i + step.consumed, beam_stream,
                       beam_mode, filtered_args \o step.appended)

\* str(dir / name)
JoinName(dir, name) ==
    IF name = <<>> THEN StrOfPath(dir) ELSE StrOfPath(Append(dir, name))

\* beam mode: the output redirected to the job's directory
BeamRedirect(job_id, beam_mode, filtered_args) ==
    LET last == filtered_args[Len(filtered_args)]
        name == PathName(last)
    IN IF /\ beam_mode
          /\ filtered_args # <<>>
          /\ (Head(last) = "/" \/ last \in {<<"dash">>, <<"hls">>})
       THEN [filtered_args EXCEPT ![Len(filtered_args)] =
                JoinName(JobDir(job_id),
                         IF name = <<"dash">> THEN <<"output.mpd">>
                         ELSE IF name = <<"hls">> THEN <<"output.m3u8">>
                         ELSE name)]
       ELSE filtered_args

\* str.endswith(".mpd")
EndsWithMpd(str) == str # <<>> /\ str[Len(str)] \in {"output.mpd", ".mpd"}

\* list.index(x), x being in the list
IndexOf(list, x) ==
    CHOOSE k \in DOMAIN list : list[k] = x /\ \A m \in 1..(k - 1) : list[m] # x

\* what the rewriter leaves when it raises
IndexError == <<<<"IndexError">>>>

\* beam mode: one-second segments for a DASH output
BeamSegDuration(beam_mode, filtered_args) ==
    LET output_path == filtered_args[Len(filtered_args)]
        at == IndexOf(filtered_args, <<"-f">>)
    IN IF ~(beam_mode /\ filtered_args # <<>>) THEN filtered_args
       ELSE IF \E k \in DOMAIN filtered_args : filtered_args[k] = <<"-f">>
       THEN IF EndsWithMpd(output_path)
            THEN SubSeq(filtered_args, 1, Len(filtered_args) - 1)
                     \o Words(<<"-seg_duration", "1">>) \o <<output_path>>
            ELSE IF at + 1 > Len(filtered_args) THEN IndexError
            ELSE IF filtered_args[at + 1] = <<"dash">>
            THEN SubSeq(filtered_args, 1, Len(filtered_args) - 1)
                     \o Words(<<"-seg_duration", "1">>) \o <<output_path>>
            ELSE filtered_args
       ELSE IF EndsWithMpd(output_path)
       THEN SubSeq(filtered_args, 1, Len(filtered_args) - 1)
                \o Words(<<"-seg_duration", "1">>) \o <<output_path>>
       ELSE filtered_args

\* the filter names that work on the accelerator
HwFilterKeywords ==
    {"scale_qsv=", "scale_cuda=", "scale_vaapi=", "hwupload", "hwupload_cuda"}

\* has_sw_filter: the first -vf or -filter_complex with a value that names
\* no hardware filter
HasSwFilter(filtered_args) ==
    \E idx \in DOMAIN filtered_args :
        /\ filtered_args[idx] \in {<<"-vf">>, <<"-filter_complex">>}
        /\ idx + 1 <= Len(filtered_args)
        /\ \A k \in DOMAIN filtered_args[idx + 1] :
              filtered_args[idx + 1][k] \notin HwFilterKeywords

\* the hardware setup dialect B puts before the first -i
StandardHwaccel(hw_accel) ==
    IF hw_accel = "qsv"
    THEN Words(<<"-hwaccel", "qsv">>)
         \o (IF QsvDevice # <<>> THEN <<<<"-qsv_device">>, QsvDevice>> ELSE <<>>)
         \o Words(<<"-hwaccel_output_format", "qsv", "-extra_hw_frames", "8">>)
    ELSE IF hw_accel = "nvenc"
    THEN Words(<<"-hwaccel", "cuda", "-hwaccel_output_format", "cuda">>)
    ELSE IF hw_accel = "vaapi"
    THEN Words(<<"-hwaccel", "vaapi", "-vaapi_device">>)
         \o <<IF QsvDevice # <<>> THEN QsvDevice ELSE DefaultRenderDevice>>
    ELSE <<>>

\* the hardware setup injected, the input's own -hwaccel options aside
InjectHwaccel(hw_accel, needs_hw_replace, filtered_args) ==
    IF filtered_args = IndexError THEN IndexError
    ELSE IF ~needs_hw_replace \/ HasSwFilter(filtered_args)
            \/ StandardHwaccel(hw_accel) = <<>>
            \/ <<"-i">> \notin Range(filtered_args)
    THEN filtered_args
    ELSE LET idx == IndexOf(filtered_args, <<"-i">>)
         IN SubSeq(filtered_args, 1, idx - 1) \o StandardHwaccel(hw_accel)
                \o SubSeq(filtered_args, idx, Len(filtered_args))

\* _filter_standard_args
FilterStandardArgs(cfg, job_id, raw_args, beam_stream, exists) ==
    LET beam_mode == beam_stream \/ exists
    IN InjectHwaccel(
           cfg.hw_accel, NeedsHwReplace(cfg.hw_accel, raw_args),
           BeamSegDuration(
               beam_mode,
               BeamRedirect(
                   job_id, beam_mode,
                   FilterFrom(cfg, job_id, raw_args, 1, beam_stream, beam_mode,
                              <<>>))))

\* --------------------------------------------------- rewriter: commands
\* the rewriter of a job's dialect
Rewrite(source, cfg, job_id, args, beam_stream, exists) ==
    IF source = "plex"
    THEN BuildPlexCommand(cfg, job_id, args, beam_stream, exists)
    ELSE FilterStandardArgs(cfg, job_id, args, beam_stream, exists)

\* a relative output becomes the playlist in the job's directory
OutputInTemp(job_id, filtered) ==
    IF filtered = <<>> THEN filtered
    ELSE LET last_arg == filtered[Len(filtered)]
         IN IF last_arg = <<"dash">>
            THEN [filtered EXCEPT ![Len(filtered)] =
                     JoinName(JobDir(job_id), <<"output.mpd">>)]
            ELSE IF last_arg = <<"hls">>
            THEN [filtered EXCEPT ![Len(filtered)] =
                     JoinName(JobDir(job_id), <<"output.m3u8">>)]
            ELSE filtered

\* the job whose arguments are rewritten
RewrittenJob == <<"j">>

\* the options a client composes its vector of
ArgGroups ==
    {<<<<"-i">>, <<"/", "m", "/", "c">>>>,
     <<<<"-ss">>, <<"5">>>>,
     <<<<"-c:v">>, <<"libx264">>>>,
     <<<<"-x264opts">>, <<"subme=0">>>>,
     <<<<"-map">>, <<"0", ":", "0">>>>,
     <<<<"-map">>, <<"0", ":", "#", "0", "x", "8", "1">>>>,
     <<<<"-codec:", "1">>, <<"libfdk_aac">>>>,
     <<<<"-hwaccel">>, <<"cuda">>>>,
     <<<<"-vn">>>>,
     <<<<"-filter_complex">>,
       <<"[", "0", ":", "#", "0", "x", "8", "1", "]", "aresample=", "ochl=",
         "[", "0", "]">>>>,
     <<<<"-vf">>, <<"scale=", "1280", ":", "-2", ",", "format=", "yuv420p">>>>}

\* the outputs a client ends its vector with
Outputs == {<<"dash">>, <<"/", "m", "/", "o">>}

\* the settings the rewriters are run with: every accelerator, without a
\* path mapping and with the one of media_path_from and media_path_to
RewriteSettings == {cfg \in SettingsChoices : cfg.path_mappings = <<>>}

\* the vector ends with its output
Closed ==
    job_raw_args # <<>> /\ job_raw_args[Len(job_raw_args)] \in Outputs

\* the client adds options to the job's vector
AddArguments(group) ==
    /\ command = NoCommand
    /\ ~Closed
    /\ Len(job_raw_args) + Len(group) <= MaxArgs
    /\ job_raw_args' = job_raw_args \o group
    /\ UNCHANGED <<command, pathvars>>

\* the client ends the vector with the output
AddOutput(out) ==
    /\ command = NoCommand
    /\ ~Closed
    /\ job_raw_args' = Append(job_raw_args, out)
    /\ UNCHANGED <<command, pathvars>>

\* transcode() in raw passthrough mode, up to the command it starts
TranscodeCommand(source, exists) ==
    /\ command = NoCommand
    /\ job_raw_args # <<>>
    /\ \E filtered \in {Rewrite(source, settings, RewrittenJob, job_raw_args,
                                 FALSE, exists)} :
          command' =
            [source |-> source, beam_stream |-> FALSE, exists |-> exists,
             job_id |-> RewrittenJob, filtered |-> filtered,
             cmd |-> Words(<<"ffmpeg", "-y", "-nostdin", "-threads", "0",
                             "-thread_type", "frame", "-progress", "pipe:1",
                             "-stats_period", "0.5", "-loglevel", "error">>)
                     \o OutputInTemp(RewrittenJob, filtered)]
    /\ UNCHANGED <<job_raw_args, pathvars>>

\* build_beam_stream_command
BuildBeamStreamCommand(source) ==
    /\ command = NoCommand
    /\ \E filtered \in {Rewrite(source, settings, RewrittenJob, job_raw_args,
                                 TRUE, FALSE)} :
          command' =
            [source |-> source, beam_stream |-> TRUE, exists |-> FALSE,
             job_id |-> RewrittenJob, filtered |-> filtered,
             cmd |-> Words(<<"ffmpeg", "-y", "-threads", "0", "-thread_type",
                             "frame", "-probesize", "50000", "-analyzeduration",
                             "0", "-progress", "pipe:1", "-stats_period", "0.5",
                             "-loglevel", "error">>)
                     \o OutputInTemp(RewrittenJob, filtered)]
    /\ UNCHANGED <<job_raw_args, pathvars>>

\* WorkerSettings.get_hevc_encoder
GetHevcEncoder(cfg) ==
    IF cfg.hw_accel = "qsv" THEN <<"hevc_qsv">>
    ELSE IF cfg.hw_accel = "nvenc" THEN <<"hevc_nvenc">>
    ELSE IF cfg.hw_accel = "vaapi" THEN <<"hevc_vaapi">>
    ELSE <<"libx265">>

\* the vector of a video transcode as the second upstream sends it:
\* -i P -c:v E -crf Q -vf scale=W:-2,format=F ... -f dash dash
StandardVector(path, encoder, crf, width, format, more) ==
    <<<<"-i">>, path, <<"-c:v">>, encoder, <<"-crf">>, crf, <<"-vf">>,
      <<"scale=", width, ":", "-2", ",", "format=", format>>>>
    \o more \o Words(<<"-f", "dash", "dash">>)

\* the vectors of that form a client sends
StandardVectors ==
    {StandardVector(path, encoder, <<crf>>, width, format, more) :
        path \in {<<"/", "m", "/", "x">>, <<"file:", "/", "v", "/", "x">>},
        encoder \in SoftwareEncoders,
        crf \in {"23", "28"},
        width \in {"1920", "1280"},
        format \in {"yuv420p", "nv12"},
        more \in {<<>>, Words(<<"-c:a", "aac">>), Words(<<"-preset", "ultrafast">>),
                  Words(<<"-maxrate", "4M", "-bufsize", "8M">>)}}

\* the client submits the job with its whole vector
SubmitVector(args) ==
    /\ command = NoCommand
    /\ job_raw_args = <<>>
    /\ job_raw_args' = args
    /\ UNCHANGED <<command, pathvars>>

\* a step of the rewriter leaves everything else alone
CmdFrame ==
    /\ JobsUnchanged
    /\ UNCHANGED <<budget, dirs, authvars, streamvars, wsvars, errvars, segvars,
                   stopvars, pipevars, progvars>>

\* ------------------------------------------------------------------- Next
\* a step of the job lifecycle leaves the rest of the state alone
RestUnchanged == UNCHANGED <<authvars, streamvars, wsvars, errvars, purevars>>

\* what the callers do: HTTP requests
Request ==
    \/ \E j \in JobIds : RegisterBeamJob(j) /\ RestUnchanged
    \/ \E j \in JobIds : SubmitJob(j) /\ RestUnchanged
    \/ \E j \in JobIds : CancelJob(j) /\ RestUnchanged
    \/ \E j \in JobIds : BeamStreamStart(j) /\ RestUnchanged
    \/ \E j \in JobIds : GetJobStatus(j) /\ RestUnchanged

\* what the workers and the subprocesses they drive do
WorkerPool ==
    \/ \E w \in Workers : WorkerStart(w) /\ RestUnchanged
    \/ \E w \in Workers : WorkerSpawnFail(w) /\ RestUnchanged
    \/ \E w \in Workers : WorkerFinish(w) /\ RestUnchanged
    \/ \E j \in JobIds, d \in Drivers : ProgressEnd(j, d) /\ RestUnchanged
    \/ \E j \in JobIds, d \in Drivers : ProcExit(j, d) /\ RestUnchanged

\* what the handlers under way do
Handlers ==
    \/ \E j \in JobIds : CancelTimeout(j) /\ RestUnchanged
    \/ \E j \in JobIds : CancelDone(j) /\ RestUnchanged
    \/ \E j \in JobIds : BeamBodyEnd(j) /\ RestUnchanged
    \/ \E j \in JobIds : BeamBodyError(j) /\ RestUnchanged
    \/ \E j \in JobIds : BeamFinish(j) /\ RestUnchanged

\* the janitors, whose wake-ups move the clock
Janitors ==
    \/ ReaperWake /\ RestUnchanged
    \/ ReaperResume /\ RestUnchanged
    \/ TempCleaner /\ RestUnchanged

\* the job lifecycle at one instant
Next == Request \/ WorkerPool \/ Handlers

Spec == Init /\ [][Next]_vars

\* the same under the event loop's scheduling: a worker that can take a job
\* or finish one does so, and every FFmpeg subprocess exits
SpecFair ==
    /\ Init
    /\ [][Next]_vars
    /\ WF_vars(\E w \in Workers :
                  (WorkerStart(w) \/ WorkerSpawnFail(w)) /\ RestUnchanged)
    /\ WF_vars(\E w \in Workers : WorkerFinish(w) /\ RestUnchanged)
    /\ WF_vars(\E j \in JobIds, d \in Drivers : ProcExit(j, d) /\ RestUnchanged)

\* the lifecycle over time, with callers that fall silent after the first
\* instant (the case the janitors are there for)
InitJanitors == Start(NumJobs, MaxSilent) /\ Rest(NumJobs, "none")

NextJanitors == (now = 0 /\ Request) \/ WorkerPool \/ Handlers \/ Janitors

SpecJanitors == InitJanitors /\ [][NextJanitors]_vars

\* callers that only submit jobs to the queue, max_concurrent_jobs + Burst of
\* them in a burst
InitQueue ==
    /\ Start(max_concurrent_jobs + Burst, max_concurrent_jobs + Burst)
    /\ Rest(max_concurrent_jobs + Burst, "none")

NextQueue == (\E j \in JobIds : SubmitJob(j) /\ RestUnchanged) \/ WorkerPool

SpecQueue == InitQueue /\ [][NextQueue]_vars

\* the endpoints with an API key configured and callers that send any header,
\* and the direct stream
InitAuth == Start(NumJobs, MaxRequests) /\ Rest(NumJobs, "secret")

NextAuth ==
    \/ \E k \in Keys, j \in JobIds : Keyed(k, Verified(k, RegisterBeamJob(j)))
    \/ \E k \in Keys, j \in JobIds : Keyed(k, Verified(k, SubmitJob(j)))
    \/ \E k \in Keys, j \in JobIds : Keyed(k, Verified(k, CancelJob(j)))
    \/ \E k \in Keys, j \in JobIds : Keyed(k, Verified(k, GetJobStatus(j)))
    \/ \E k \in Keys, j \in JobIds : Keyed(k, BeamStreamStart(j))
    \/ \E k \in Keys, j \in JobIds : Keyed(k, BeamUpload(j))
    \/ \E k \in Keys : KeyedStreamStart(k)
    \/ StreamChunk /\ StreamFrame
    \/ StreamQuiet /\ StreamFrame
    \/ StreamTimeout /\ StreamFrame
    \/ StreamEOF /\ StreamFrame
    \/ StreamDisconnect /\ StreamFrame
    \/ StreamProcExit /\ StreamFrame
    \/ StreamReaped /\ StreamFrame
    \/ StreamKillTimeout /\ StreamFrame

SpecAuth == InitAuth /\ [][NextAuth]_<<vars, authvars, streamvars>>

\* one job of the queue, its progress lines and broadcasts, and WebSocket
\* clients that connect, lose their connection and disconnect
InitWs == Start(1, 1) /\ Rest(1, "none")

NextWs ==
    \/ \E j \in JobIds : SubmitJob(j) /\ NoBroadcast
    \/ \E w \in Workers : WorkerStart(w) /\ NoBroadcast
    \/ \E j \in JobIds : ProcExit(j, "w") /\ NoBroadcast
    \/ \E j \in JobIds : ProgressLine(j) /\ WsFrame
    \/ \E j \in JobIds : ProgressEndLine(j)
                            /\ UNCHANGED <<authvars, streamvars, errvars, purevars>>
    \/ \E w \in Workers : WorkerFinishBroadcast(w)
                            /\ UNCHANGED <<authvars, streamvars, errvars, purevars>>
    \/ \E t \in DOMAIN tasks, fails \in BOOLEAN : TaskStep(t, fails) /\ WsFrame
    \/ \E s \in Sockets, j \in JobIds : WsConnect(s, j) /\ WsFrame
    \/ \E s \in Sockets : WsBreak(s) /\ WsFrame
    \/ \E s \in Sockets : WsClose(s) /\ WsFrame

SpecWs == InitWs /\ [][NextWs]_<<vars, wsvars>>

\* jobs of both kinds up to their end: the subprocess exits with a
\* returncode and a stderr, progress.error is set, cancellation included
InitExit == Start(NumJobs, MaxSilent) /\ Rest(NumJobs, "none")

NextExit ==
    \/ \E j \in JobIds : RegisterBeamJob(j) /\ ExitFrame
    \/ \E j \in JobIds : SubmitJob(j) /\ ExitFrame
    \/ \E j \in JobIds : CancelJob(j) /\ ExitFrame
    \/ \E j \in JobIds : CancelTimeout(j) /\ ExitFrame
    \/ \E j \in JobIds : CancelDone(j) /\ ExitFrame
    \/ \E w \in Workers : WorkerStart(w) /\ ExitFrame
    \/ \E w \in Workers : WorkerSpawnFailError(w) /\ ErrFrame
    \/ \E w \in Workers : WorkerFinishError(w) /\ ErrFrame
    \/ \E j \in JobIds, d \in Drivers : ProgressEnd(j, d) /\ ExitFrame
    \/ \E j \in JobIds, d \in Drivers : ProcExitStderr(j, d) /\ ErrFrame
    \/ \E j \in JobIds : BeamStreamStartPipe(j) /\ ErrFrame
    \/ \E j \in JobIds : BeamBodyEndClose(j) /\ ErrFrame
    \/ \E j \in JobIds : BeamPipeBroken(j) /\ ErrFrame
    \/ \E j \in JobIds : BeamBodyErrorError(j) /\ ErrFrame
    \/ \E j \in JobIds : BeamFinishError(j) /\ ErrFrame

SpecExit == InitExit /\ [][NextExit]_<<vars, errvars>>

\* the filesystem is filled, then one request is answered (the answer
\* depends on nothing but the request and the filesystem)
Unanswered == response.endpoint = "none"

\* the two segment endpoints over every filesystem of the candidate places
InitSegments ==
    /\ Start(NumJobs, MaxRequests)
    /\ Rest(NumJobs, "none")

NextSegments ==
    \/ \E job \in JobNames, filename \in Names :
          Unanswered /\ BeamGetSegment(job, filename) /\ SegFrame
    \/ \E job \in JobNames, filename \in Names :
          Unanswered /\ GetSegment(job, filename) /\ SegFrame
    \/ \E place \in Places \ files :
          Unanswered /\ WriteFile(place) /\ SegFrame

SpecSegments == InitSegments /\ [][NextSegments]_<<segvars>>

\* the settings are loaded, then one argument is mapped (the result
\* depends on nothing but the argument and the settings)
Unmapped == mapped = NoMapped

\* the path mapper under every path setting, on every short path
InitPaths == Start(NumJobs, MaxRequests) /\ Rest(NumJobs, "none")

NextPaths ==
    \/ \E cfg \in SettingsChoices : LoadSettings(cfg) /\ PathFrame
    \/ \E arg \in Paths : Unmapped /\ MapArgument(arg) /\ PathFrame

SpecPaths == InitPaths /\ [][NextPaths]_<<pathvars>>

\* the settings are loaded and the client composes the vector, options
\* first and the output last; the job's command is built once, from the
\* whole vector (it depends on nothing but the vector, the settings, the
\* dialect and the mode)
Unbuilt == job_raw_args = <<>> /\ command = NoCommand

\* the rewriters under every accelerator, on every short vector
InitRewrite == Start(NumJobs, MaxRequests) /\ Rest(NumJobs, "none")

NextRewrite ==
    \/ \E cfg \in RewriteSettings : Unbuilt /\ LoadSettings(cfg) /\ PathFrame
    \/ \E group \in ArgGroups : AddArguments(group) /\ CmdFrame
    \/ \E out \in Outputs : AddOutput(out) /\ CmdFrame
    \/ \E source \in {"plex", "jellyfin"}, exists \in BOOLEAN :
          Closed /\ TranscodeCommand(source, exists) /\ CmdFrame
    \/ \E source \in {"plex", "jellyfin"} :
          Closed /\ BuildBeamStreamCommand(source) /\ CmdFrame

SpecRewrite == InitRewrite /\ [][NextRewrite]_<<pathvars, cmdvars>>

\* --------------------------------------------------- worker tasks, shutdown
\* the task of worker w is scheduled: not cancelled, not ended
Running(w) == worker_task[w] = "run"

\* the frame of a step of the worker tasks or of stop_workers
TaskFrame ==
    UNCHANGED <<authvars, streamvars, wsvars, segvars, pathvars, cmdvars, pipevars,
                progvars>>

\* the worker tasks after worker w caught an exception of a job: except
\* Exception does not raise again, so the task goes on
AfterExceptionEnds(pool, w) == [pool EXCEPT ![w] = "done"]
AfterException(pool, w) == pool

\* _worker: transcode() raises before its try block (the rewriter's
\* IndexError, the mkdir of the output directory): the worker's except
\* Exception marks the job failed with str(e), its finally discards the id,
\* and the loop goes back to queue.get()
WorkerRaise(w) ==
    /\ worker[w] = 0
    /\ queue # <<>>
    /\ LET j == Head(queue) IN
        /\ queue' = Tail(queue)
        /\ active_jobs' = active_jobs \ {j}
        /\ status' = [status EXCEPT ![j] = "failed"]
        /\ terminal_at' = Stamp(terminal_at, j, status[j], "failed", now)
        /\ error' = [error EXCEPT ![j] = ErrorOfException]
    /\ worker_task' = AfterException(worker_task, w)
    /\ UNCHANGED <<jobs, last_polled, completed_at, proc, job_process, worker,
                   beam, cancel, reaper_pc, reaper_todo, reaper_cur,
                   reaper_wake, cleaner_wake, dirs, now, budget, stderr, stdin,
                   stop_pc, driven_at_stop>>

\* stop_workers up to its gather: task.cancel() on every worker. The
\* lifespan calls it after the server has let its requests finish
StopWorkers ==
    /\ stop_pc = "idle"
    /\ \A j \in JobIds : beam[j] = "idle" /\ ~Cancelling(j)
    /\ stop_pc' = "gather"
    /\ worker_task' = [w \in Workers |-> "cancelling"]
    /\ driven_at_stop' = {worker[w] : w \in Workers} \ {0}
    /\ UNCHANGED <<vars, errvars>>

\* CancelledError thrown into a worker waiting in queue.get(): the outer
\* except CancelledError breaks the loop
WorkerCancelledIdle(w) ==
    /\ worker_task[w] = "cancelling"
    /\ worker[w] = 0
    /\ worker_task' = [worker_task EXCEPT ![w] = "done"]
    /\ UNCHANGED <<vars, errvars, stop_pc, driven_at_stop>>

\* CancelledError thrown into transcode() while job.process names a live
\* subprocess: terminate() signals it, then the handler awaits wait()
WorkerCancelledDriving(w) ==
    /\ worker_task[w] = "cancelling"
    /\ worker[w] # 0
    /\ Alive(worker[w], job_process[worker[w]])
    /\ worker_task' = [worker_task EXCEPT ![w] = "unwind"]
    /\ UNCHANGED <<vars, errvars, stop_pc, driven_at_stop>>

\* the subprocess named by job.process ended: wait() returns, the status is
\* cancelled, CancelledError leaves transcode(), the worker's finally
\* discards the id and the outer except breaks the loop
WorkerUnwound(w) ==
    /\ worker_task[w] = "unwind"
    /\ LET j == worker[w] IN
        /\ Exited(j, job_process[j])
        /\ status' = [status EXCEPT ![j] = "cancelled"]
        /\ terminal_at' = Stamp(terminal_at, j, status[j], "cancelled", now)
        /\ active_jobs' = active_jobs \ {j}
        /\ worker' = [worker EXCEPT ![w] = 0]
    /\ worker_task' = [worker_task EXCEPT ![w] = "done"]
    /\ UNCHANGED <<jobs, queue, last_polled, completed_at, proc, job_process,
                   beam, cancel, reaper_pc, reaper_todo, reaper_cur,
                   reaper_wake, cleaner_wake, dirs, now, budget, errvars,
                   stop_pc, driven_at_stop>>

\* CancelledError thrown into transcode() while job.process names a
\* subprocess that has ended. Before its transport is closed terminate()
\* does nothing and wait() returns at once: cancelled, the worker ends.
\* After it, terminate() raises ProcessLookupError inside the handler: the
\* worker's except Exception marks the job failed, the cancellation is
\* spent and the loop goes back to queue.get()
WorkerCancelledExited(w) ==
    /\ worker_task[w] = "cancelling"
    /\ worker[w] # 0
    /\ LET j == worker[w] IN
        /\ Exited(j, job_process[j])
        /\ active_jobs' = active_jobs \ {j}
        /\ worker' = [worker EXCEPT ![w] = 0]
        /\ \/ /\ status' = [status EXCEPT ![j] = "cancelled"]
              /\ terminal_at' = Stamp(terminal_at, j, status[j], "cancelled", now)
              /\ worker_task' = [worker_task EXCEPT ![w] = "done"]
              /\ UNCHANGED error
           \/ /\ status' = [status EXCEPT ![j] = "failed"]
              /\ terminal_at' = Stamp(terminal_at, j, status[j], "failed", now)
              /\ worker_task' = [worker_task EXCEPT ![w] = "run"]
              /\ error' = [error EXCEPT ![j] = ErrorOfException]
    /\ UNCHANGED <<jobs, queue, last_polled, completed_at, proc, job_process,
                   beam, cancel, reaper_pc, reaper_todo, reaper_cur,
                   reaper_wake, cleaner_wake, dirs, now, budget, stderr, stdin,
                   stop_pc, driven_at_stop>>

\* stop_workers after its gather: every worker task has ended
StopReturn ==
    /\ stop_pc = "gather"
    /\ \A w \in Workers : worker_task[w] = "done"
    /\ stop_pc' = "returned"
    /\ UNCHANGED <<vars, errvars, worker_task, driven_at_stop>>

\* the task of the beam_stream handler is cancelled while it awaits the body
\* or the subprocess: CancelledError is no Exception, the handler has no
\* finally, so it ends where it stands
BeamCancelled(j) ==
    /\ beam[j] \in {"body", "wait"}
    /\ beam' = [beam EXCEPT ![j] = "idle"]
    /\ UNCHANGED <<jobs, status, queue, active_jobs, last_polled, completed_at,
                   proc, job_process, worker, cancel, reaper_pc, reaper_todo,
                   reaper_cur, reaper_wake, cleaner_wake, dirs, now,
                   terminal_at, budget>>

\* the lifecycle with exceptions, task cancellation and shutdown
Serving == stop_pc = "idle"

NextStop ==
    \/ \E j \in JobIds : Serving /\ RegisterBeamJob(j) /\ ExitFrame
    \/ \E j \in JobIds : Serving /\ SubmitJob(j) /\ ExitFrame
    \/ \E j \in JobIds : Serving /\ CancelJob(j) /\ ExitFrame
    \/ \E j \in JobIds : CancelTimeout(j) /\ ExitFrame
    \/ \E j \in JobIds : CancelDone(j) /\ ExitFrame
    \/ \E w \in Workers : Running(w) /\ WorkerStart(w) /\ ExitFrame
    \/ \E w \in Workers : Running(w) /\ WorkerSpawnFailError(w) /\ ErrFrame
    \/ \E w \in Workers : Running(w) /\ WorkerRaise(w) /\ TaskFrame
    \/ \E w \in Workers : Running(w) /\ WorkerFinishError(w) /\ ErrFrame
    \/ \E j \in JobIds, d \in Drivers : ProgressEnd(j, d) /\ ExitFrame
    \/ \E j \in JobIds, d \in Drivers : ProcExit(j, d) /\ ExitFrame
    \/ \E j \in JobIds : Serving /\ BeamStreamStart(j) /\ ExitFrame
    \/ \E j \in JobIds : BeamBodyEnd(j) /\ ExitFrame
    \/ \E j \in JobIds : BeamBodyErrorError(j) /\ ErrFrame
    \/ \E j \in JobIds : BeamFinishError(j) /\ ErrFrame
    \/ \E j \in JobIds : BeamCancelled(j) /\ ExitFrame
    \/ StopWorkers /\ TaskFrame
    \/ \E w \in Workers : WorkerCancelledIdle(w) /\ TaskFrame
    \/ \E w \in Workers : WorkerCancelledDriving(w) /\ TaskFrame
    \/ \E w \in Workers : WorkerCancelledExited(w) /\ TaskFrame
    \/ \E w \in Workers : WorkerUnwound(w) /\ TaskFrame
    \/ StopReturn /\ TaskFrame

SpecStop == InitExit /\ [][NextStop]_<<vars, errvars, stopvars>>

\* ------------------------------------------------------------ stderr pipe
\* the chunks the stderr pipe and its StreamReader hold before the writer
\* blocks (the reader pauses the transport above twice its limit)
PipeCapacity == 2

\* the most chunks a subprocess writes to stderr
MaxStderr == 3

\* the frames of a step that moves the stderr pipe: one that sets the
\* error text too, one that does not
ReadFrame ==
    UNCHANGED <<authvars, streamvars, wsvars, segvars, pathvars, cmdvars, stopvars,
                progvars>>

PipeFrame == ReadFrame /\ UNCHANGED errvars

\* a subprocess is spawned with stderr=PIPE; it will write n chunks
Spawned(pipes, j, d, n) == [pipes EXCEPT ![j][d] = [todo |-> n, fill |-> 0]]

\* a read of stderr to its end: communicate(), process.stderr.read()
ReadToEnd(pipes, j, d) == [pipes EXCEPT ![j][d].fill = 0]

WorkerStartStderr(w) ==
    /\ WorkerStart(w)
    /\ \E n \in 0..MaxStderr : err_pipe' = Spawned(err_pipe, Head(queue), "w", n)

BeamStreamStartStderr(j) ==
    /\ BeamStreamStart(j)
    /\ \E n \in 0..MaxStderr : err_pipe' = Spawned(err_pipe, j, "b", n)

\* the subprocess writes a chunk to stderr: it blocks while the pipe is full
ProcWriteStderr(j, d) ==
    /\ Alive(j, d)
    /\ err_pipe[j][d].todo > 0
    /\ err_pipe[j][d].fill < PipeCapacity
    /\ err_pipe' = [err_pipe EXCEPT ![j][d] =
                       [todo |-> @.todo - 1, fill |-> @.fill + 1]]
    /\ UNCHANGED <<vars, errvars>>

\* the subprocess, having written all of its stderr, ends its progress
\* stream and exits
ProgressEndWritten(j, d) ==
    /\ err_pipe[j][d].todo = 0
    /\ ProgressEnd(j, d)
    /\ UNCHANGED err_pipe

ProcExitWritten(j, d) ==
    /\ err_pipe[j][d].todo = 0
    /\ ProcExit(j, d)
    /\ UNCHANGED err_pipe

\* transcode(): _parse_progress has read stdout to its end, only then
\* communicate() reads stderr
WorkerFinishRead(w) ==
    /\ WorkerFinishError(w)
    /\ err_pipe' = ReadToEnd(err_pipe, worker[w], job_process[worker[w]])

\* beam_stream: await progress_task (stdout to its end), only then
\* process.stderr.read()
BeamFinishRead(j) ==
    /\ BeamFinishError(j)
    /\ err_pipe' = ReadToEnd(err_pipe, j, "b")

\* the steps of the drivers and of the subprocesses
NextDrive ==
    \/ \E w \in Workers : WorkerStartStderr(w) /\ PipeFrame
    \/ \E w \in Workers : WorkerFinishRead(w) /\ ReadFrame
    \/ \E j \in JobIds, d \in Drivers : ProcWriteStderr(j, d) /\ PipeFrame
    \/ \E j \in JobIds, d \in Drivers : ProgressEndWritten(j, d) /\ PipeFrame
    \/ \E j \in JobIds, d \in Drivers : ProcExitWritten(j, d) /\ PipeFrame
    \/ \E j \in JobIds : BeamBodyEnd(j) /\ ExitFrame
    \/ \E j \in JobIds : BeamFinishRead(j) /\ ReadFrame

\* the requests that start jobs
NextPipes ==
    \/ \E j \in JobIds : RegisterBeamJob(j) /\ ExitFrame
    \/ \E j \in JobIds : SubmitJob(j) /\ ExitFrame
    \/ \E j \in JobIds : BeamStreamStartStderr(j) /\ PipeFrame
    \/ NextDrive

\* the event loop runs every task that can run, a subprocess that can write
\* or exit does so, and a request body comes to its end
SpecPipes ==
    /\ InitExit
    /\ [][NextPipes]_<<vars, errvars, pipevars>>
    /\ WF_<<vars, errvars, pipevars>>(NextDrive)

\* dialect B on the vectors of a video transcode, in every mode
NextStandard ==
    \/ \E cfg \in RewriteSettings : Unbuilt /\ LoadSettings(cfg) /\ PathFrame
    \/ \E args \in StandardVectors : SubmitVector(args) /\ CmdFrame
    \/ \E exists \in BOOLEAN :
          Closed /\ TranscodeCommand("jellyfin", exists) /\ CmdFrame
    \/ Closed /\ BuildBeamStreamCommand("jellyfin") /\ CmdFrame

SpecStandard == InitRewrite /\ [][NextStandard]_<<pathvars, cmdvars>>

\* dialect A on vectors whose audio filter graph names its inputs by
\* absolute stream references
StreamRef(index) == <<"[", "0", ":">> \o index \o <<"]">>

AudioGraph(first, second) ==
    StreamRef(first) \o <<"aresample=", "ochl=">>
        \o (IF second = <<>> THEN <<>> ELSE StreamRef(second) \o <<"amix">>)
        \o <<"[", "0", "]">>

AudioVectors ==
    {video \o <<<<"-i">>, path, <<"-filter_complex">>, AudioGraph(first, second),
                <<"-map">>, <<"[", "0", "]">>>> \o codec \o <<output>> :
        video \in {<<>>, <<<<"-vn">>>>},
        path \in {<<"/", "m", "/", "x">>, <<"/", "v", "/", "x">>},
        first \in {<<"0">>, <<"1">>, <<"2">>, <<"1", "2">>},
        second \in {<<>>, <<"0">>, <<"1">>, <<"3">>},
        codec \in {<<>>, <<<<"-codec:", "0">>, <<"aac">>>>},
        output \in Outputs}

NextAudio ==
    \/ \E cfg \in RewriteSettings : Unbuilt /\ LoadSettings(cfg) /\ PathFrame
    \/ \E args \in AudioVectors : SubmitVector(args) /\ CmdFrame
    \/ \E exists \in BOOLEAN :
          Closed /\ TranscodeCommand("plex", exists) /\ CmdFrame
    \/ Closed /\ BuildBeamStreamCommand("plex") /\ CmdFrame

SpecAudio == InitRewrite /\ [][NextAudio]_<<pathvars, cmdvars>>

\* ---------------------------------------------------------- progress parser
\* value.isdigit()
IsDigit(value) == value # <<>> /\ \A k \in DOMAIN value : value[k] \in Digits

\* int(value): ok is FALSE where it raises ValueError
IntValue(value) ==
    LET signed == value # <<>> /\ Head(value) \in {"-", "+"}
        body == IF signed THEN Tail(value) ELSE value
    IN IF IsDigit(body)
       THEN [ok |-> TRUE,
             n |-> IF signed /\ Head(value) = "-" THEN 0 - IntOf(body, 10, 0)
                   ELSE IntOf(body, 10, 0)]
       ELSE [ok |-> FALSE, n |-> 0]

\* float(value) of a decimal with at most two digits after the point; a
\* float is kept in hundredths
FloatValue(value) ==
    LET signed == value # <<>> /\ Head(value) \in {"-", "+"}
        body == IF signed THEN Tail(value) ELSE value
        whole == SubSeq(body, 1, RunLength(body, Digits))
        rest == SubSeq(body, Len(whole) + 1, Len(body))
        frac == IF rest # <<>> /\ Head(rest) = "." THEN Tail(rest) ELSE <<>>
        ok == /\ whole \o frac # <<>>
              /\ rest = <<>> \/ Head(rest) = "."
              /\ \A k \in DOMAIN frac : frac[k] \in Digits
              /\ Len(frac) <= 2
        hundredths == IntOf(whole, 10, 0) * 100
                          + (IF Len(frac) = 1 THEN 10 * IntOf(frac, 10, 0)
                             ELSE IntOf(frac, 10, 0))
    IN IF ok
       THEN [ok |-> TRUE,
             n |-> IF signed /\ Head(value) = "-" THEN 0 - hundredths
                   ELSE hundredths]
       ELSE [ok |-> FALSE, n |-> 0]

\* re.match(r"([\d.]+)x?", value): group 1, or nothing
SpeedMatch(value) == SubSeq(value, 1, RunLength(value, Digits \cup {"."}))

\* _update_progress_from_line: a ValueError ends in except: pass
UpdateProgressFromLine(p, line) ==
    IF \A k \in DOMAIN line : line[k] # "=" THEN p
    ELSE
    LET key == Strip(SplitOnce(line, "=", <<>>)[1])
        value == Strip(SplitOnce(line, "=", <<>>)[2])
    IN IF key = <<"frame">>
       THEN IF IntValue(value).ok
            THEN [p EXCEPT !.frame = IntValue(value).n] ELSE p
       ELSE IF key = <<"fps">>
       THEN IF value = <<>> THEN [p EXCEPT !.fps = 0]
            ELSE IF FloatValue(value).ok
            THEN [p EXCEPT !.fps = FloatValue(value).n] ELSE p
       ELSE IF key = <<"bitrate">>
       THEN [p EXCEPT !.bitrate = value]
       ELSE IF key = <<"total_size">>
       THEN [p EXCEPT !.total_size =
                          IF IsDigit(value) THEN IntValue(value).n ELSE 0]
       ELSE IF key = <<"out_time_ms">>
       THEN [p EXCEPT !.out_time_ms =
                          IF IsDigit(value) THEN IntValue(value).n ELSE 0]
       ELSE IF key = <<"speed">>
       THEN IF SpeedMatch(value) # <<>> /\ FloatValue(SpeedMatch(value)).ok
            THEN [p EXCEPT !.speed = FloatValue(SpeedMatch(value)).n] ELSE p
       ELSE IF key = <<"progress">> /\ value = <<"end">>
       THEN [p EXCEPT !.progress = 100 * 100, !.status = "completed"]
       ELSE p

\* the lines of a progress stream: the recognized keys and one other, with
\* values that parse and values that do not, and lines without '='
ProgressKeys ==
    {<<"frame">>, <<"fps">>, <<"bitrate">>, <<"total_size">>, <<"out_time_ms">>,
     <<"speed">>, <<"progress">>, <<"drop_frames">>, <<"fps", " ">>}

ProgressValues ==
    {<<>>, <<"7">>, <<"1", "5">>, <<" ", "3">>, <<"1", ".", "5">>,
     <<"1", ".", "5", "x">>, <<"2", "x">>, <<"-", "1">>, <<".">>, <<"N/A">>,
     <<"2", "N/A">>, <<"1", "=", "2">>, <<"end">>, <<"continue">>}

ProgressLines ==
    {key \o <<"=">> \o value : key \in ProgressKeys, value \in ProgressValues}
        \cup {<<>>, <<"frame">>, <<"1", "5">>, <<"end">>}

\* _parse_progress hands one more line of the stream to the parser
ParseLine(line) ==
    /\ parsed < MaxLines
    /\ parsed' = parsed + 1
    /\ fed_line' = line
    /\ progress' = UpdateProgressFromLine(progress, line)

\* the frame of a step of the parser
ProgFrame ==
    /\ JobsUnchanged
    /\ UNCHANGED <<budget, dirs, authvars, streamvars, wsvars, errvars, segvars,
                   pathvars, cmdvars, stopvars, pipevars>>

NextProgress == \E line \in ProgressLines : ParseLine(line) /\ ProgFrame

SpecProgress == InitRewrite /\ [][NextProgress]_<<progvars>>

\* ------------------------------------------------------ the cancel answer
\* DELETE /job/{job_id}: JobQueue.cancel_job returns False for an unknown
\* id, which the endpoint turns into HTTPException(404); otherwise the
\* endpoint returns {"status": "cancelled", "job_id": job_id}
CancelJobAnswer(j) ==
    /\ CancelJob(j)
    /\ response' = [NoResponse EXCEPT !.endpoint = "cancel",
                                      !.job = StrOfNat(j),
                                      !.code = IF j \in jobs THEN 200 ELSE 404]

\* the frame of the cancel endpoint
CancelFrame ==
    UNCHANGED <<authvars, streamvars, wsvars, errvars, files, pathvars, cmdvars,
                stopvars, pipevars, progvars>>

\* the job lifecycle with the answers of the cancel endpoint
NextCancel ==
    \/ \E j \in JobIds : RegisterBeamJob(j) /\ RestUnchanged
    \/ \E j \in JobIds : SubmitJob(j) /\ RestUnchanged
    \/ \E j \in JobIds : CancelJobAnswer(j) /\ CancelFrame
    \/ \E j \in JobIds : BeamStreamStart(j) /\ RestUnchanged
    \/ \E j \in JobIds : GetJobStatus(j) /\ RestUnchanged
    \/ WorkerPool
    \/ Handlers

SpecCancel == Init /\ [][NextCancel]_<<vars, response>>

\* ----------------------------------------------------------------- claims
\* job j waits in the queue
InQueue(j) == \E i \in 1..Len(queue) : queue[i] = j

\* no worker and no beam-stream handler drives job j
NoDriver(j) == beam[j] = "idle" /\ \A w \in Workers : worker[w] # j

\* C1: the number of registered jobs whose status is running never exceeds
\* max_concurrent_jobs
C1_RunningWithinCap ==
    Cardinality({j \in jobs : status[j] = "running"}) <= max_concurrent_jobs

\* C2: a job cancelled while it waits in the queue keeps the status cancelled
\* in every step of the job queue, the one that takes it out of the queue
\* included, and no such step spawns a subprocess for it
C2_QueuedCancelSpawnsNothing ==
    [][\A j \in JobIds :
         (status[j] = "cancelled" /\ InQueue(j) /\ beam'[j] = beam[j])
             => (status'[j] = "cancelled" /\ proc'[j] = proc[j])]_vars

\* C3: terminal states are absorbing: no step changes a status that is
\* completed, failed or cancelled
C3_TerminalAbsorbing ==
    [][\A j \in JobIds : status[j] \in Terminal => status'[j] = status[j]]_vars

\* C4: a job never has two live subprocesses at the same instant
C4_OneSubprocessPerJob ==
    \A j \in JobIds : Cardinality({d \in Drivers : Alive(j, d)}) <= 1

\* C5: a job in terminal status has no live subprocess
C5_TerminalHasNoSubprocess ==
    \A j \in JobIds : status[j] \in Terminal => \A d \in Drivers : ~Alive(j, d)

\* C6: once the cancellation of a running job has finished (SIGTERM, up to
\* 5 s, SIGKILL, status cancelled) and the job's driver has returned, the
\* status is cancelled
C6_CancelledStaysCancelled ==
    \A j \in JobIds : (cancel[j] = "done" /\ NoDriver(j)) => status[j] = "cancelled"

\* C7: a job in status running or queued is never found with a last poll
\* more than 90 s + 30 s in the past: the reaper has cancelled it by then
C7_OrphanReapedInTime ==
    \A j \in jobs :
        (status[j] \in {"running", "queued"} /\ j \in DOMAIN last_polled)
            => now - last_polled[j] <= ORPHAN_TIMEOUT + 2 * REAPER_PERIOD

\* C8: a job that reached a terminal status has neither a registry entry nor
\* an output directory more than 120 s later
C8_TerminalJobCleaned ==
    \A j \in JobIds :
        (status[j] \in Terminal /\ j \in DOMAIN terminal_at
                                /\ (j \in jobs \/ j \in DOMAIN dirs))
            => now - terminal_at[j] <= FINISHED_GRACE + CLEANER_PERIOD

\* C9: a step that removes the registry entry or the output directory of a
\* registered job removes those of a job in terminal status that became
\* terminal at least 60 s before; directories of registered jobs are
\* removed in no other way (the sweep leaves them alone)
C9_CleanerRemovesOnlyFinished ==
    [][\A j \in jobs :
         (j \notin jobs' \/ (j \in DOMAIN dirs /\ j \notin DOMAIN dirs'))
             => /\ status[j] \in Terminal
                /\ j \in DOMAIN terminal_at
                /\ now' - terminal_at[j] >= FINISHED_GRACE]_vars

\* C10: with max_concurrent_jobs + Burst jobs submitted through the queue,
\* the active set never holds more than max_concurrent_jobs job ids
C10_ActiveSetWithinCap == Cardinality(active_jobs) <= max_concurrent_jobs

\* C10: every job of the burst is submitted, every worker drives one, and
\* Burst jobs wait in the queue
C10_BurstWaits ==
    /\ budget = 0
    /\ Cardinality(active_jobs) = max_concurrent_jobs
    /\ \A w \in Workers : worker[w] # 0
    /\ Len(queue) = Burst

\* C11: with an API key configured, a request whose X-API-Key header is
\* missing or wrong changes no state: no job registered, enqueued, cancelled
\* or started, no subprocess spawned, no directory or file written
C11_UnauthorizedChangesNothing ==
    [][(budget' < budget /\ api_key # "none" /\ x_api_key' # api_key)
          => UNCHANGED <<jobs, status, queue, active_jobs, last_polled, proc,
                         job_process, beam, cancel, dirs, stream, ffmpeg_proc>>
      ]_<<vars, authvars, streamvars>>

\* C19 as stated: when the direct stream has ended its subprocess is gone,
\* and a SIGKILL was only sent after a SIGTERM
C19_TermThenKill ==
    stream = "done" =>
        /\ ffmpeg_proc = "exited"
        /\ signals \in {<<>>, <<"TERM">>, <<"TERM", "KILL">>}

\* C19 amended: a read of the direct stream never waits longer than 120 s for
\* the first chunk and 30 s for a later one; when the stream has ended, on
\* whatever path, its subprocess has exited or has been sent SIGKILL, and
\* SIGKILL is the only signal ever sent
C19_KilledWhenStreamEnds ==
    /\ stream = "read" => silent <= ReadTimeout
    /\ stream = "done" => (ffmpeg_proc = "exited" \/ signals = <<"KILL">>)
    /\ signals \in {<<>>, <<"KILL">>}

\* C19: the stream ended because no first chunk came within 120 s, and the
\* killed subprocess is gone
C19_FirstByteTimeoutKilled ==
    /\ stream = "done"
    /\ ~got_first_data
    /\ silent = FIRST_BYTE_TIMEOUT
    /\ signals = <<"KILL">>
    /\ ffmpeg_proc = "exited"

\* C12: a job registered with beam_stream=true gets the status pending and
\* is not put on the queue, then or later; while it is pending it is not in
\* the queue and has no worker-spawned subprocess; a worker only takes jobs
\* out of the queue; and the only status that follows pending is running,
\* given by a beam-stream handler that starts
C12_BeamJobNeverQueued ==
    [][\A j \in JobIds :
         /\ status[j] = "pending" => (~InQueue(j) /\ proc[j]["w"] = "none")
         /\ (status[j] = "none" /\ status'[j] = "pending") => ~InQueue(j)'
         /\ (status[j] # "none" /\ ~InQueue(j)) => ~InQueue(j)'
         /\ \A w \in Workers :
                (worker'[w] = j /\ worker[w] # j) => InQueue(j)
         /\ (status[j] = "pending" /\ status'[j] # "pending")
                => /\ status'[j] = "running"
                   /\ beam[j] = "idle" /\ beam'[j] = "body"
                   /\ proc'[j]["b"] = "alive"]_vars

\* C12: a beam job is pending while a worker drives a job submitted after it
C12_PendingWhileWorkerRuns ==
    \E j \in jobs, w \in Workers : status[j] = "pending" /\ worker[w] > j

\* C13: a last-polled entry is set or changed only by a status poll of a
\* registered job whose status is running or queued: such a step changes
\* nothing else, and the entry is the time of the poll
C13_OnlyPollsSetLastPolled ==
    [][\A j \in JobIds :
         (j \in DOMAIN last_polled'
            /\ (j \notin DOMAIN last_polled \/ last_polled'[j] # last_polled[j]))
         => /\ j \in jobs
            /\ status[j] \in {"running", "queued"}
            /\ last_polled'[j] = now
            /\ budget' = budget - 1
            /\ UNCHANGED <<jobs, status, queue, active_jobs, completed_at,
                           proc, job_process, worker, beam, cancel, dirs,
                           now>>]_vars

\* C13: the callers have sent all their requests, a poll among them, and a
\* registered job in pending or terminal status has no last-polled entry
C13_PolledAndUnpolled ==
    /\ budget = 0
    /\ last_polled # <<>>
    /\ \E k \in jobs : /\ status[k] \in Terminal \cup {"pending"}
                       /\ k \notin DOMAIN last_polled

\* C17: the reaper never starts to cancel a job that has no last-polled
\* entry, and a janitor's wake-up changes neither the status nor the
\* cancellation state of such a job
C17_NeverPolledNotReaped ==
    [][\A j \in JobIds :
         j \notin DOMAIN last_polled
         => /\ ~(reaper_cur' = j /\ reaper_cur # j)
            /\ now' > now => (status'[j] = status[j] /\ cancel'[j] = cancel[j])
      ]_vars

\* C17: a job that was submitted and never polled is still running, in the
\* active set, after more than ORPHAN_TIMEOUT + REAPER_PERIOD seconds
C17_UnpolledStillRunning ==
    \E j \in active_jobs :
        /\ budget = MaxSilent - 1
        /\ status[j] = "running"
        /\ j \notin DOMAIN last_polled
        /\ now > ORPHAN_TIMEOUT + REAPER_PERIOD

\* C14: once a job's status is terminal its list of subscribers never grows:
\* a WebSocket that connects to a finished job is not added to it.
C14_NoSubscriberAfterTerminal ==
    [][\A j \in JobIds :
          status[j] \in Terminal =>
              Range(websocket_connections'[j]) \subseteq
                  Range(websocket_connections[j])]_<<vars, wsvars>>

\* C15: the updates one subscriber receives for a job are in the order the
\* worker emitted them: the number of progress lines they report never
\* decreases, and nothing older follows the worker's final update, also
\* when several broadcast tasks are in flight at once.
C15_UpdatesInOrder ==
    \A s \in Sockets : \A i, k \in DOMAIN received[s] :
        i < k => /\ received[s][i].n <= received[s][k].n
                 /\ received[s][i].fin => received[s][k].fin

\* a subscriber holds the final update while an older broadcast is still
\* suspended in a send and a younger one has already ended
C15_FinalSeenWhileOlderInFlight ==
    \E s \in Sockets :
        /\ Len(received[s]) >= 3
        /\ received[s][Len(received[s])].fin
        /\ \E t, u \in DOMAIN tasks :
              t < u /\ tasks[t].pc = "send" /\ tasks[u].pc = "done"

\* C16: a send that fails costs only the failing subscriber: a broadcast
\* never ends while an open subscriber of its list is still without the
\* update, whoever else failed and however many broadcasts failed on it.
C16_FailureDropsOnlyTheFailed ==
    \A t \in DOMAIN tasks :
        tasks[t].pc \in {"done", "dead"} => tasks[t].conns = <<>>

\* C18: a job whose subprocess exits non-zero without having been cancelled
\* ends failed with progress.error the last 500 characters of that
\* subprocess's stderr, in the worker and in the beam stream, whatever
\* progress=end had set before; exit code 0 ends it completed.
C18_ExitDecidesStatusAndError ==
    [][\A j \in JobIds :
          /\ \A w \in Workers :
                worker[w] = j /\ worker'[w] = 0 /\ cancel[j] = "none" =>
                    IF proc[j][job_process[j]] = "exit0"
                    THEN status'[j] = "completed"
                    ELSE /\ status'[j] = "failed"
                         /\ error'[j] = LastChars(stderr[j][job_process[j]].len,
                                                  ERROR_TAIL)
          /\ beam[j] = "wait" /\ beam'[j] = "idle" /\ cancel[j] = "none" =>
                IF proc[j]["b"] = "exit0"
                THEN status'[j] = "completed"
                ELSE /\ status'[j] = "failed"
                     /\ error'[j] = LastChars(stderr[j]["b"].len, ERROR_TAIL)
      ]_<<vars, errvars>>

\* C20: BrokenPipeError or ConnectionResetError while the body is written to
\* stdin ends the body loop and nothing else: the job is not marked failed,
\* no signal is sent, the handler waits for the subprocess to exit and the
\* exit code decides the status; and whenever the handler waits, stdin is
\* closed or the subprocess has closed its end.
C20_BrokenPipeIsExpected ==
    [][\A j \in JobIds :
          /\ beam[j] = "body" /\ beam'[j] = "wait" /\ stdin'[j] = "broken" =>
                /\ status'[j] = status[j]
                /\ error'[j] = error[j]
                /\ proc'[j] = proc[j]
                /\ active_jobs' = active_jobs
          /\ beam[j] = "wait" /\ beam'[j] = "idle" =>
                /\ Exited(j, "b")
                /\ status'[j] = ExitStatus(proc[j]["b"])
                /\ j \in DOMAIN completed_at'
                /\ j \notin active_jobs'
          /\ beam'[j] = "wait" => stdin'[j] \in {"closed", "broken"}
      ]_<<vars, errvars>>

\* a beam job whose pipe broke has ended completed on exit code 0
C20_CompletedAfterBrokenPipe ==
    \E j \in JobIds :
        /\ stdin[j] = "broken"
        /\ beam[j] = "idle"
        /\ proc[j]["b"] = "exit0"
        /\ j \in DOMAIN completed_at
        /\ status[j] = "completed"

\* C21: the beam segment endpoint answers 400, before any filesystem
\* lookup, to every file name containing "/", "\" or ".."; a name that
\* passes and is no file of the job's directory is answered 404; what it
\* serves is a file of the job's own directory.
C21_BeamSegmentSanitised ==
    response.endpoint = "beam" =>
        LET here == Append(JobDir(response.job), response.filename) IN
        /\ (\E bad \in {<<"/">>, <<"\\">>, <<".", ".">>} :
                Contains(response.filename, bad))
               => response.code = 400 /\ response.lookups = <<>>
        /\ response.code = 400 =>
               \E bad \in {<<"/">>, <<"\\">>, <<".", ".">>} :
                   Contains(response.filename, bad)
        /\ (response.code # 400 /\ response.filename # <<".">>
                /\ here \notin files) => response.code = 404
        /\ response.code = 200 => response.file = here /\ here \in files

\* a traversal that names an existing file outside the job's directory was
\* answered 400, untouched
C21_TraversalRejected ==
    /\ response.endpoint = "beam"
    /\ response.filename = <<".", ".", "/", "s">>
    /\ Append(TempDir, <<"s">>) \in files
    /\ response.code = 400

\* C22: the shared-filesystem segment endpoint behaves like the beam one:
\* it rejects file names containing "/", "\" or "..", serves only a file of
\* the job's own directory and answers 404 for anything else.
C22_SegmentsLikeBeam ==
    response.endpoint = "segments" =>
        LET here == Append(JobDir(response.job), response.filename) IN
        /\ (\E bad \in {<<"/">>, <<"\\">>, <<".", ".">>} :
                Contains(response.filename, bad)) => response.code = 400
        /\ response.code = 200 => response.file = here /\ here \in files
        /\ (response.code # 400 /\ here \notin files) => response.code = 404

\* C30: the path mapper applies the matching rule with the longest `from`,
\* once, and no other: of two rules with P1 a proper prefix of P2 a path
\* starting with P2 is rewritten by P2's rule; a path that matches no rule
\* comes back unchanged.
C30_LongestPrefixWins ==
    mapped # NoMapped =>
        LET rules == Range(GetPathMappings(settings))
            matching == {r \in rules : StartsWith(mapped.arg, r.from)}
        IN IF matching = {} THEN mapped.out = mapped.arg
           ELSE \E r \in matching :
                   /\ \A q \in matching : Len(q.from) <= Len(r.from)
                   /\ mapped.out =
                          r.to \o SubSeq(mapped.arg, Len(r.from) + 1,
                                         Len(mapped.arg))

\* the rule of /m stands first in the configuration, and a path under
\* /m/c was rewritten by the rule of /m/c
C30_LongerRuleListedSecond ==
    /\ settings.path_mappings = <<"/", "m", "=", "/", "k", ";",
                                  "/", "m", "/", "c", "=", "/", "j">>
    /\ mapped.arg = <<"/", "m", "/", "c", "/">>
    /\ mapped.out = <<"/", "j", "/">>

\* the values that follow the option `flag` in an argument vector, in order
RECURSIVE OptionValues(_, _)
OptionValues(vector, flag) ==
    IF vector = <<>> THEN <<>>
    ELSE IF Head(vector) = flag /\ Len(vector) >= 2
    THEN <<vector[2]>> \o OptionValues(Tail(Tail(vector)), flag)
    ELSE OptionValues(Tail(vector), flag)

\* the places of the argument `flag` in an argument vector
PlacesOf(vector, flag) == {k \in DOMAIN vector : vector[k] = flag}

\* the vector requests a libx264 or libx265 video encoder
RequestsSoftwareEncoder(raw_args) ==
    \E i \in DOMAIN raw_args :
        /\ raw_args[i] \in EncoderFlags
        /\ i + 1 <= Len(raw_args)
        /\ raw_args[i + 1] \in SoftwareEncoders

\* a command has been built by dialect A (Plex) or by dialect B (Jellyfin)
BuiltA == command.source = "plex"
BuiltB == command.source = "jellyfin"
Built == BuiltA \/ BuiltB

\* C23 as stated: for every accelerator and both dialects, the rewritten
\* vector of an input that requests libx264 or libx265 has no -x264opts
\* option.
C23_NoX264opts ==
    (Built /\ RequestsSoftwareEncoder(job_raw_args)) =>
        \A k \in DOMAIN command.filtered :
            ~StartsWith(command.filtered[k], <<"-x264opts">>)

\* C23 amended: the rewritten vector of an input that requests libx264 or
\* libx265 has no -x264opts option under qsv, nvenc and vaapi in both
\* dialects and under dialect A with any accelerator; dialect B with the
\* accelerator none keeps each -x264opts option of the input and its value.
C23_X264optsOnlyInSoftware ==
    (Built /\ RequestsSoftwareEncoder(job_raw_args)) =>
        IF BuiltB /\ settings.hw_accel = "none"
        THEN OptionValues(command.filtered, <<"-x264opts">>)
                 = OptionValues(job_raw_args, <<"-x264opts">>)
        ELSE \A k \in DOMAIN command.filtered :
                 ~StartsWith(command.filtered[k], <<"-x264opts">>)

\* dialect B under nvenc replaced libx264 by the hardware encoder and
\* dropped the -x264opts option the input carried
C23_X264optsDroppedForNvenc ==
    /\ BuiltB
    /\ settings.hw_accel = "nvenc"
    /\ OptionValues(job_raw_args, <<"-x264opts">>) # <<>>
    /\ OptionValues(job_raw_args, <<"-c:v">>) = <<<<"libx264">>>>
    /\ OptionValues(command.filtered, <<"-c:v">>) = <<<<"h264_nvenc">>>>
    /\ OptionValues(command.filtered, <<"-x264opts">>) = <<>>

\* C24: for every accelerator and both dialects the rewritten vector never
\* contains the token libfdk_aac: where the input names libfdk_aac as a
\* codec (dialect A: also as the value of a per-stream -codec:N) the output
\* names aac.
C24_NoLibfdkAac ==
    Built => <<"libfdk_aac">> \notin Range(command.filtered)

\* C25: for every accelerator and both dialects the rewritten vector of a
\* HW-replace input has at most one -hwaccel directive, whatever -hwaccel
\* options the input carried, and every -hwaccel directive in it stands
\* before -i.
C25_OneHwaccelBeforeInput ==
    (Built /\ RequestsSoftwareEncoder(job_raw_args)) =>
        /\ Cardinality(PlacesOf(command.filtered, <<"-hwaccel">>)) <= 1
        /\ \A h \in PlacesOf(command.filtered, <<"-hwaccel">>) :
              \A i \in PlacesOf(command.filtered, <<"-i">>) : h < i

\* C26: dialect A, the input carrying a seek -ss V: the rewritten vector has
\* -ss exactly once, followed by V; in beam-stream mode it stands right
\* after -i pipe:0 and never before it, otherwise before -i.
C26_SeekOnceAtItsPlace ==
    (BuiltA /\ OptionValues(job_raw_args, <<"-ss">>) # <<>>) =>
        LET out == command.filtered
            given == OptionValues(job_raw_args, <<"-ss">>)
            seeks == PlacesOf(out, <<"-ss">>)
            inputs == PlacesOf(out, <<"-i">>)
        IN /\ Cardinality(seeks) = 1
           /\ Cardinality(PlacesOf(command.cmd, <<"-ss">>)) = 1
           /\ Cardinality(inputs) = 1
           /\ \A p \in seeks, q \in inputs :
                 /\ out[p + 1] = given[Len(given)]
                 /\ IF command.beam_stream
                    THEN out[q + 1] = <<"pipe:0">> /\ p = q + 2
                    ELSE p < q

\* in beam-stream mode dialect A put the seek of the input right after
\* -i pipe:0
C26_SeekAfterPipe ==
    /\ BuiltA
    /\ command.beam_stream
    /\ OptionValues(job_raw_args, <<"-ss">>) = <<<<"5">>>>
    /\ \E q \in DOMAIN command.filtered :
          /\ q + 3 <= Len(command.filtered)
          /\ SubSeq(command.filtered, q, q + 3)
                 = <<<<"-i">>, <<"pipe:0">>, <<"-ss">>, <<"5">>>>

\* C27: dialect A, the input containing -vn: the rewritten command has no
\* -map 0:v:0, no video filter or encoder directive and no hardware
\* acceleration setup, and every -map of the input is kept, in order, as an
\* audio stream (its value as -map leaves it).
C27_AudioOnly ==
    (BuiltA /\ <<"-vn">> \in Range(job_raw_args)) =>
        LET out == command.filtered
            maps == OptionValues(job_raw_args, <<"-map">>)
        IN /\ <<"0", ":", "v", ":", "0">> \notin Range(OptionValues(out, <<"-map">>))
           /\ \A k \in DOMAIN out :
                 out[k] \notin {<<"-c:v">>, <<"-vf">>, <<"libx264">>,
                                <<"h264_qsv">>, <<"h264_nvenc">>, <<"h264_vaapi">>}
           /\ \A k \in DOMAIN out :
                 out[k] \notin {<<"-hwaccel">>, <<"-hwaccel_output_format">>,
                                <<"-extra_hw_frames">>, <<"-qsv_device">>,
                                <<"-vaapi_device">>}
           /\ OptionValues(out, <<"-map">>)
                  = [k \in DOMAIN maps |-> MapValue(maps[k])]

\* under qsv dialect A built an audio-only command that maps both streams
\* of an input with -vn
C27_TwoAudioStreamsKept ==
    /\ BuiltA
    /\ settings.hw_accel = "qsv"
    /\ <<"-vn">> \in Range(job_raw_args)
    /\ Len(OptionValues(job_raw_args, <<"-map">>)) = 2
    /\ Len(OptionValues(command.filtered, <<"-map">>)) = 2

\* the -map options of the input that dialect A keeps as audio streams:
\* all but the first when a video stream is present
KeptMaps(raw_args) ==
    LET maps == OptionValues(raw_args, <<"-map">>)
    IN IF HasVideo(raw_args) /\ maps # <<>> THEN Tail(maps) ELSE maps

\* C28: dialect A: a hexadecimal stream selector #0xNN of a -map value or
\* of the audio -filter_complex is rewritten to its decimal value, and the
\* decimal value stands in the emitted vector at that place: the value of
\* every kept -map and the audio filter are those of the input with the
\* selectors in decimal (and ochl renamed for the old ffmpeg).
C28_HexSelectorsInDecimal ==
    BuiltA =>
        LET out == command.filtered
            maps == KeptMaps(job_raw_args)
            filters == OptionValues(job_raw_args, <<"-filter_complex">>)
            emitted == OptionValues(out, <<"-map">>)
            audio == IF HasVideo(job_raw_args) /\ emitted # <<>>
                     THEN Tail(emitted) ELSE emitted
        IN /\ \A k \in DOMAIN maps :
                 Contains(maps[k], <<"#", "0", "x">>)
                     => k \in DOMAIN audio /\ audio[k] = SubHex(maps[k])
           /\ \A k \in DOMAIN filters :
                 (k = Len(filters) /\ Contains(filters[k], <<"#", "0", "x">>))
                     => OptionValues(out, <<"-filter_complex">>)
                            = <<ReplaceLexeme(SubHex(filters[k]), "ochl=", "ocl=")>>

\* C29: rewriting is idempotent for both dialects, every accelerator and
\* mode: the rewriter applied to its own result, under the same settings
\* and mode, gives that result again.
C29_RewriteIdempotent ==
    Built =>
        Rewrite(command.source, settings, command.job_id, command.filtered,
                command.beam_stream, command.exists) = command.filtered

\* C31: dialect B with accelerator qsv, the input being
\* -i P -c:v libx264 -crf Q -vf scale=W:-2,format=F ... -f dash dash of job J:
\* the vector FFmpeg is started with contains h264_qsv and no libx264, the
\* video filter scale_qsv=w=W:h=-1:format=nv12, -global_quality Q, the
\* hwaccel init sequence right before -i, and ends with <temp>/J/output.mpd;
\* with accelerator none the same input keeps libx264, -crf Q and the
\* original scale filter and gets no hwaccel init.
C31_StandardScenario ==
    (BuiltB /\ OptionValues(job_raw_args, <<"-c:v">>) = <<<<"libx264">>>>) =>
        LET cmd == command.cmd
            crf == OptionValues(job_raw_args, <<"-crf">>)
            vf == OptionValues(job_raw_args, <<"-vf">>)
        IN /\ settings.hw_accel = "qsv" =>
                /\ <<"h264_qsv">> \in Range(cmd)
                /\ <<"libx264">> \notin Range(cmd)
                /\ OptionValues(cmd, <<"-vf">>)
                       = <<<<"scale_qsv=", "w=", vf[1][2], ":", "h=", "-1", ":",
                             "format=", "nv12">>>>
                /\ OptionValues(cmd, <<"-global_quality">>) = crf
                /\ OptionValues(cmd, <<"-crf">>) = <<>>
                /\ \E i \in PlacesOf(cmd, <<"-i">>) :
                      /\ i > 6
                      /\ SubSeq(cmd, i - 6, i - 1)
                             = Words(<<"-hwaccel", "qsv", "-hwaccel_output_format",
                                       "qsv", "-extra_hw_frames", "8">>)
                /\ cmd[Len(cmd)]
                       = <<"/", "t", "/", "j", "/", "output.mpd">>
           /\ settings.hw_accel = "none" =>
                /\ OptionValues(cmd, <<"-c:v">>) = <<<<"libx264">>>>
                /\ OptionValues(cmd, <<"-crf">>) = crf
                /\ OptionValues(cmd, <<"-vf">>) = vf
                /\ \A k \in DOMAIN cmd : ~StartsWith(cmd[k], <<"-hwaccel">>)

\* under qsv the scenario's vector -crf 23, scale=1920 was rewritten for the
\* accelerator and its output put in the job's directory
C31_QsvScenarioBuilt ==
    /\ BuiltB
    /\ settings.hw_accel = "qsv"
    /\ ~command.beam_stream /\ ~command.exists
    /\ OptionValues(job_raw_args, <<"-c:v">>) = <<<<"libx264">>>>
    /\ OptionValues(job_raw_args, <<"-crf">>) = <<<<"23">>>>
    /\ OptionValues(command.cmd, <<"-global_quality">>) = <<<<"23">>>>
    /\ OptionValues(command.cmd, <<"-c:v">>) = <<<<"h264_qsv">>>>
    /\ OptionValues(command.cmd, <<"-vf">>)
           = <<<<"scale_qsv=", "w=", "1920", ":", "h=", "-1", ":", "format=",
                 "nv12">>>>
    /\ command.cmd[Len(command.cmd)] = <<"/", "t", "/", "j", "/", "output.mpd">>

\* C32: dialect B HW-replace preserves the codec family: a requested
\* libx264 is replaced by the accelerator's H.264 encoder and a requested
\* libx265 by the accelerator's HEVC encoder.
C32_CodecFamilyPreserved ==
    (BuiltB /\ settings.hw_accel # "none") =>
        /\ OptionValues(job_raw_args, <<"-c:v">>) = <<<<"libx264">>>>
              => OptionValues(command.filtered, <<"-c:v">>)
                     = <<GetVideoEncoder(settings)>>
        /\ OptionValues(job_raw_args, <<"-c:v">>) = <<<<"libx265">>>>
              => OptionValues(command.filtered, <<"-c:v">>)
                     = <<GetHevcEncoder(settings)>>

\* C33: an exception raised while a worker processes a job (before or in
\* the spawn) never ends the worker's task: the job is failed with the
\* error message, it is not in the active set, the worker is back at the
\* queue; until shutdown every worker task is live
C33_ExceptionKeepsWorker ==
    /\ [][\A w \in Workers :
            Running(w) /\ (WorkerRaise(w) \/ WorkerSpawnFailError(w))
            => /\ status'[Head(queue)] = "failed"
               /\ error'[Head(queue)] = ErrorOfException
               /\ Head(queue) \notin active_jobs'
               /\ worker'[w] = 0
               /\ worker_task'[w] = "run"]_<<vars, errvars, stopvars>>
    /\ [](Serving => Cardinality({w \in Workers : worker_task[w] # "done"})
                        = max_concurrent_jobs)

\* job 1 failed by an exception before any subprocess, and the worker that
\* caught it drives job 2
C33_NextJobAfterException ==
    /\ Serving
    /\ status[1] = "failed" /\ error[1] = ErrorOfException
    /\ \A d \in Drivers : ~Alive(1, d) /\ ~Exited(1, d)
    /\ 1 \notin active_jobs
    /\ \E w \in Workers : Running(w) /\ worker[w] = 2

\* C34: a subprocess that fills its stderr pipe while its stdout is open
\* does not deadlock the job: a running job reaches a terminal status
C34_FullStderrNoDeadlock ==
    \A j \in 1..NumJobs : (status[j] = "running") ~> (status[j] \in Terminal)

\* C35: on shutdown every worker is cancelled and awaited. A cancelled
\* worker task does not run on; when stop_workers has returned no worker
\* task is left, every job a worker drove has its subprocess ended, the
\* status cancelled and its id out of the active set; from the cancel on the
\* queue is left as it is and no worker subprocess is spawned
C35_ShutdownCancelsWorkers ==
    /\ [](stop_pc # "idle" => \A w \in Workers : worker_task[w] # "run")
    /\ [](stop_pc = "returned" =>
            /\ \A w \in Workers : worker_task[w] = "done"
            /\ \A j \in driven_at_stop :
                  /\ ~Alive(j, "w")
                  /\ status[j] = "cancelled"
                  /\ j \notin active_jobs)
    /\ [][stop_pc # "idle" =>
            /\ queue' = queue
            /\ \A j \in JobIds : Alive(j, "w")' => Alive(j, "w")]_<<vars, errvars, stopvars>>

\* the graph with every absolute reference [0:N], N >= 1, collapsed
RECURSIVE CollapseAll(_)
CollapseAll(str) ==
    IF str = <<>> THEN <<>>
    ELSE LET run == IF StartsWith(str, <<"[", "0", ":">>)
                    THEN RunLength(SubSeq(str, 4, Len(str)), Digits)
                    ELSE 0
         IN IF /\ run > 0
               /\ Len(str) >= 4 + run
               /\ str[4 + run] = "]"
               /\ SubSeq(str, 4, 3 + run) # <<"0">>
            THEN <<"[", "0", ":", "a", ":", "0", "]">>
                     \o CollapseAll(SubSeq(str, 5 + run, Len(str)))
            ELSE <<Head(str)>> \o CollapseAll(Tail(str))

\* C36: dialect A: the absolute references [0:N], N >= 1, of the audio filter
\* graph are all collapsed to [0:a:0] in the command built in beam-stream
\* mode, and the graph keeps them in a command built in another mode (the
\* graph is otherwise that of the input, ochl renamed for the old ffmpeg).
C36_AbsoluteReferencesCollapsed ==
    BuiltA =>
        LET graph == ReplaceLexeme(
                         OptionValues(job_raw_args, <<"-filter_complex">>)[1],
                         "ochl=", "ocl=")
        IN OptionValues(command.filtered, <<"-filter_complex">>)
               = <<IF command.beam_stream THEN CollapseAll(graph) ELSE graph>>

\* the record the parser is to leave: only the field of a recognized key
\* whose value parses is set
ParsedOnly(p, line) ==
    IF \A k \in DOMAIN line : line[k] # "=" THEN p
    ELSE
    LET key == Strip(SplitOnce(line, "=", <<>>)[1])
        value == Strip(SplitOnce(line, "=", <<>>)[2])
        number == SpeedMatch(value)
    IN IF key = <<"frame">> /\ IntValue(value).ok
       THEN [p EXCEPT !.frame = IntValue(value).n]
       ELSE IF key = <<"fps">> /\ FloatValue(value).ok
       THEN [p EXCEPT !.fps = FloatValue(value).n]
       ELSE IF key = <<"bitrate">>
       THEN [p EXCEPT !.bitrate = value]
       ELSE IF key = <<"total_size">> /\ IsDigit(value)
       THEN [p EXCEPT !.total_size = IntValue(value).n]
       ELSE IF key = <<"out_time_ms">> /\ IsDigit(value)
       THEN [p EXCEPT !.out_time_ms = IntValue(value).n]
       ELSE IF key = <<"speed">> /\ FloatValue(number).ok
       THEN [p EXCEPT !.speed = FloatValue(number).n]
       ELSE IF key = <<"progress">> /\ value = <<"end">>
       THEN [p EXCEPT !.progress = 100 * 100, !.status = "completed"]
       ELSE p

\* C37: the progress parser changes only the field named by a recognized
\* key: a line with an unknown key, without '=' or with a value that does
\* not parse leaves every field of the record as it was; progress=end sets
\* percent to 100 and status to completed.
C37_OnlyParsedFieldChanges ==
    [][progress' = ParsedOnly(progress, fed_line')]_<<progvars>>

\* C38: every job enqueued by submit_job is dequeued by a worker, in the
\* order of submission (the job a worker takes is the oldest in the queue),
\* and reaches a terminal status; no job stays queued for ever and no worker
\* stays on a job whose subprocesses have exited.
C38_QueuedJobsFinish ==
    /\ \A j \in 1..NumJobs : InQueue(j) ~> ~InQueue(j)
    /\ \A j \in 1..NumJobs : InQueue(j) ~> (~InQueue(j) /\ status[j] \in Terminal)
    /\ \A w \in Workers, j \in 1..NumJobs :
          (worker[w] = j /\ Exited(j, "w")) ~> (worker[w] # j)
    /\ [][\A j \in JobIds :
            InQueue(j) /\ ~InQueue(j)' =>
                /\ j = Head(queue)
                /\ \A k \in JobIds : InQueue(k) /\ k # j => InQueue(k)']_vars

\* both jobs were submitted, job 1 first: a worker has driven job 1 to its
\* end and drives job 2
C38_FirstDoneSecondDriven ==
    /\ status[1] \in {"completed", "failed"}
    /\ 1 \in DOMAIN completed_at
    /\ ~InQueue(1) /\ ~InQueue(2)
    /\ \E w \in Workers : worker[w] = 2
    /\ Alive(2, "w")

\* C39: the active set never keeps an id whose driver has ended: an id in
\* the active set is that of a job a worker or a beam-stream handler drives,
\* whichever way the drivers before it ended (success, subprocess failure,
\* exception, task cancellation, client disconnect).
C39_ActiveSetHasDriver ==
    \A j \in JobIds : j \in active_jobs => ~NoDriver(j)

\* C40: cancel_job on a registered job whose status is pending, completed,
\* failed or cancelled changes nothing (status, subprocess handle and
\* subprocesses, timestamps, queue, active set, last-polled table) and
\* answers 200; on an unknown id it changes nothing and answers 404.
C40_CancelOfSettledJobIsNoop ==
    [][\A j \in JobIds :
          (CancelJobAnswer(j)
              /\ (j \notin jobs
                    \/ status[j] \in {"pending", "completed", "failed", "cancelled"}))
          => /\ UNCHANGED <<jobs, status, job_process, proc, cancel, completed_at,
                            terminal_at, queue, active_jobs, last_polled, worker,
                            beam, dirs>>
             /\ response'.code = IF j \in jobs THEN 200 ELSE 404]_<<vars, response>>

\* a DELETE of job 1 was answered 200 while the job was pending (a job
\* never returns to pending) and it is pending still, nothing about it
\* having moved; the poll of job 2 is still on record
C40_PendingJobCancelled ==
    /\ response.endpoint = "cancel" /\ response.code = 200
    /\ response.job = <<"1">>
    /\ 1 \in jobs /\ status[1] = "pending"
    /\ job_process[1] = "none"
    /\ 1 \notin active_jobs
    /\ 2 \in DOMAIN last_polled

====
